---- MODULE Spec2Model ----
(***************************************************************************)
(* Model of scripts/downloader.py: the APKMirror artifact discovery and    *)
(* resolution engine (main, download_app_apks, download_single_apk and     *)
(* APKMirrorParser._get_variants_from_version_page with its packaging      *)
(* preference filter).                                                     *)
(*                                                                         *)
(* Strings are TLC strings; Python's `in`, startswith, endswith, lower and *)
(* f-string concatenation are computed on them character by character.     *)
(* A parsed HTML page is represented by what the BeautifulSoup queries of  *)
(* the code return on it: the download-shaped links in document order and  *)
(* the text nodes with the download links of their parent and grandparent. *)
(***************************************************************************)
EXTENDS Integers, Sequences, FiniteSets, TLC

(***************************************************************************)
(* Bounds of the model.                                                    *)
(***************************************************************************)
MaxApps == 2
MaxRetries == 2
MaxEarlier == 1

(***************************************************************************)
(* String helpers (Python str operations).                                 *)
(***************************************************************************)
Contains(s, sub) ==
    \E i \in 1..(Len(s) - Len(sub) + 1) : SubSeq(s, i, i + Len(sub) - 1) = sub

StartsWith(s, pre) ==
    Len(pre) <= Len(s) /\ SubSeq(s, 1, Len(pre)) = pre

EndsWith(s, suf) ==
    Len(suf) <= Len(s) /\ SubSeq(s, Len(s) - Len(suf) + 1, Len(s)) = suf

(* str.lower() of one character: the ASCII capitals *)
LowerChar(c) ==
    CASE c = "A" -> "a" [] c = "B" -> "b" [] c = "C" -> "c" [] c = "D" -> "d"
      [] c = "E" -> "e" [] c = "F" -> "f" [] c = "G" -> "g" [] c = "H" -> "h"
      [] c = "I" -> "i" [] c = "J" -> "j" [] c = "K" -> "k" [] c = "L" -> "l"
      [] c = "M" -> "m" [] c = "N" -> "n" [] c = "O" -> "o" [] c = "P" -> "p"
      [] c = "Q" -> "q" [] c = "R" -> "r" [] c = "S" -> "s" [] c = "T" -> "t"
      [] c = "U" -> "u" [] c = "V" -> "v" [] c = "W" -> "w" [] c = "X" -> "x"
      [] c = "Y" -> "y" [] c = "Z" -> "z" [] OTHER -> c

(* str.lower(), computed by halves to keep the recursion shallow *)
RECURSIVE Lower(_)
Lower(s) ==
    IF Len(s) = 0 THEN ""
    ELSE IF Len(s) = 1 THEN LowerChar(s)
    ELSE Lower(SubSeq(s, 1, Len(s) \div 2))
         \o Lower(SubSeq(s, Len(s) \div 2 + 1, Len(s)))

(* Then(v, Op) is Op(v) with v evaluated once, before Op is applied: TLC   *)
(* evaluates an operator's argument where it is used, and the loops below  *)
(* use the result of an iteration more than once in the next.              *)
Then(v, Op(_)) == CHOOSE r \in { Op(x) : x \in {v} } : TRUE

AnyIn(seq, s) == \E i \in 1..Len(seq) : Contains(s, seq[i])

Range(seq) == { seq[i] : i \in 1..Len(seq) }

(* urllib.parse.urljoin on the shapes the pages use: an absolute URL is    *)
(* kept, a host-relative path is put behind the origin of the base, any    *)
(* other reference replaces the last path segment of the base.             *)
Positions(s, c) == { i \in 1..Len(s) : SubSeq(s, i, i) = c }

(* the first position of c in s at or after i, 0 when there is none *)
IndexFrom(s, c, i) ==
    LET at == { k \in Positions(s, c) : k >= i }
    IN  IF at = {} THEN 0 ELSE CHOOSE k \in at : \A j \in at : k <= j

(* the last position of c in s, 0 when there is none *)
LastIndex(s, c) ==
    LET at == Positions(s, c)
    IN  IF at = {} THEN 0 ELSE CHOOSE k \in at : \A j \in at : k >= j

Origin(base) ==
    LET p == IndexFrom(base, "/", 9)
    IN  IF p = 0 THEN base ELSE SubSeq(base, 1, p - 1)

urljoin(base, href) ==
    IF href = "" THEN base
    ELSE IF StartsWith(href, "http://") \/ StartsWith(href, "https://") THEN href
    ELSE IF StartsWith(href, "/") THEN Origin(base) \o href
    ELSE SubSeq(base, 1, LastIndex(base, "/")) \o href

(***************************************************************************)
(* APKMirrorParser._get_variants_from_version_page.                        *)
(*                                                                         *)
(* A page is [links, nodes]:                                               *)
(*   links: the result of soup.find_all('a', href=.*-apk-download/?$) in   *)
(*          document order, each [href, text, parent_text, has_row,        *)
(*          row_text] (the link's stripped text, the stripped text of its  *)
(*          parent and of its enclosing <tr>, when there is one);          *)
(*   nodes: the text nodes in document order, each [text, parent,          *)
(*          has_grand, grand] where parent and grand are the indexes (into *)
(*          links) of the download links inside the node's parent and      *)
(*          grandparent element.                                           *)
(* A variant is [url, text, architecture, context].                        *)
(***************************************************************************)
NoArch == ""

ContextLimit == 100

arch_keywords(arch) ==
    CASE arch = "armeabi-v7a" -> <<"armeabi-v7a", "armeabi">>
      [] arch = "arm64-v8a"   -> <<"arm64-v8a", "arm64">>
      [] arch = "x86"         -> <<"x86">>
      [] arch = "x86_64"      -> <<"x86_64">>
      [] arch = "universal"   -> <<"universal", "noarch">>
      [] OTHER                -> <<>>

HasUrl(variants, full_url) ==
    \E i \in 1..Len(variants) : variants[i].url = full_url

(* for link in download_links: ... break  (lines 252-268): the first link *)
(* of the container that is not yet among the variants is added            *)
AddFirstNewLink(variants, page, idxs, arch, base) ==
    LET new == { k \in 1..Len(idxs) :
                   /\ page.links[idxs[k]].href # ""
                   /\ ~EndsWith(page.links[idxs[k]].href, "#disqus_thread")
                   /\ ~HasUrl(variants, urljoin(base, page.links[idxs[k]].href)) }
    IN  IF new = {} THEN variants
        ELSE LET link == page.links[idxs[CHOOSE k \in new : \A j \in new : k <= j]]
             IN  Append(variants,
                        [url |-> urljoin(base, link.href), text |-> link.text,
                         architecture |-> arch,
                         context |-> "architecture_specific_" \o arch])

(* for container in [parent, grandparent]  (lines 242-268) *)
FromElement(variants, page, node, arch, base) ==
    LET v1 == AddFirstNewLink(variants, page, node.parent, arch, base)
    IN  IF node.has_grand
        THEN Then(v1, LAMBDA v : AddFirstNewLink(v, page, node.grand, arch, base))
        ELSE v1

(* line 238: soup.find_all(string=lambda text: text and keyword in text.lower()) *)
ArchElements(page, keyword) ==
    SelectSeq(page.nodes, LAMBDA node : Contains(Lower(node.text), keyword))

(* for arch_element in arch_elements  (lines 240-268) *)
RECURSIVE FromElements(_, _, _, _, _, _)
FromElements(variants, page, arch_elements, arch, base, n) ==
    IF n > Len(arch_elements) THEN variants
    ELSE Then(FromElement(variants, page, arch_elements[n], arch, base),
              LAMBDA v : FromElements(v, page, arch_elements, arch, base, n + 1))

(* for keyword in arch_keywords[arch]  (lines 236-268) *)
RECURSIVE FromKeywords(_, _, _, _, _, _)
FromKeywords(variants, page, keywords, arch, base, k) ==
    IF k > Len(keywords) THEN variants
    ELSE Then(FromElements(variants, page, ArchElements(page, keywords[k]),
                           arch, base, 1),
              LAMBDA v : FromKeywords(v, page, keywords, arch, base, k + 1))

(* Method 1: for arch in architectures  (lines 232-268) *)
RECURSIVE KeywordPass(_, _, _, _, _)
KeywordPass(variants, page, archs, base, a) ==
    IF a > Len(archs) THEN variants
    ELSE Then(FromKeywords(variants, page, arch_keywords(archs[a]), archs[a],
                           base, 1),
              LAMBDA v : KeywordPass(v, page, archs, base, a + 1))

ArchMatches(arch, full_text) ==
    \/ arch = "armeabi-v7a" /\ AnyIn(<<"armeabi", "armv7", "arm-v7a">>, full_text)
    \/ arch = "arm64-v8a" /\ AnyIn(<<"arm64", "aarch64">>, full_text)
    \/ arch = "x86_64" /\ Contains(full_text, "x86_64")
    \/ arch = "x86" /\ Contains(full_text, "x86") /\ ~Contains(full_text, "x86_64")
    \/ arch = "universal" /\ AnyIn(<<"universal", "noarch", "all-arch">>, full_text)

(* for arch in architectures: if ...: arch_found = arch; break  (301-317) *)
RECURSIVE DetectArch(_, _, _)
DetectArch(full_text, archs, a) ==
    IF a > Len(archs) THEN NoArch
    ELSE IF ArchMatches(archs[a], full_text) THEN archs[a]
    ELSE DetectArch(full_text, archs, a + 1)

(* lines 320-321 defaulting to the first requested architecture *)
UniversalDefaultFirstRequested(arch_found, archs) ==
    IF arch_found = NoArch /\ archs # <<>> THEN archs[1] ELSE arch_found

(* lines 320-321 without the test that universal was requested *)
UniversalDefaultUnasked(arch_found, archs) ==
    IF arch_found = NoArch THEN "universal" ELSE arch_found

(* lines 320-321 *)
UniversalDefault(arch_found, archs) ==
    IF arch_found = NoArch /\ "universal" \in Range(archs)
    THEN "universal" ELSE arch_found

LinkContext(link) ==
    IF link.has_row THEN link.parent_text \o " " \o link.row_text
    ELSE link.parent_text

Truncate(s, n) == IF Len(s) > n THEN SubSeq(s, 1, n) ELSE s

(* lines 289-321: the architecture of a link *)
LinkArch(link, archs) ==
    Then(Lower(link.text \o " " \o link.href \o " " \o LinkContext(link)),
         LAMBDA full_text :
             UniversalDefault(DetectArch(full_text, archs, 1), archs))

(* lines 278-335: one link of all_download_links *)
AddLink(variants, link, archs, base) ==
    LET full_url == urljoin(base, link.href)
    IN  IF /\ link.href # ""
           /\ ~EndsWith(link.href, "#disqus_thread")
           /\ ~HasUrl(variants, full_url)
           /\ LinkArch(link, archs) # NoArch
        THEN Append(variants,
                    [url |-> full_url, text |-> link.text,
                     architecture |-> LinkArch(link, archs),
                     context |-> Truncate(LinkContext(link), ContextLimit)])
        ELSE variants

(* Method 2: for link in all_download_links  (lines 273-335) *)
RECURSIVE ExhaustivePass(_, _, _, _, _)
ExhaustivePass(variants, page, archs, base, k) ==
    IF k > Len(page.links) THEN variants
    ELSE Then(AddLink(variants, page.links[k], archs, base),
              LAMBDA v : ExhaustivePass(v, page, archs, base, k + 1))

(***************************************************************************)
(* APKMirrorParser._filter_prefer_apk_downloads.                           *)
(***************************************************************************)
(* arch_groups: a dict, so the architectures in order of first appearance *)
RECURSIVE ArchGroups(_, _, _)
ArchGroups(variants, k, seen) ==
    IF k > Len(variants) THEN seen
    ELSE Then(IF variants[k].architecture \in Range(seen) THEN seen
              ELSE Append(seen, variants[k].architecture),
              LAMBDA s : ArchGroups(variants, k + 1, s))

HasVariantNumber(url_lower) ==
    \E d \in {"2", "3", "4", "5", "6", "7", "8", "9"} :
        Contains(url_lower, "-" \o d \o "-android-apk-download")

PackagingClass(variant) ==
    LET url_lower == Lower(variant.url)
        combined_text == Lower(variant.text) \o " " \o url_lower \o " "
                         \o Lower(variant.context)
    IN  IF HasVariantNumber(url_lower) THEN "apk"
        ELSE IF \/ EndsWith(url_lower, "-android-apk-download")
                \/ EndsWith(url_lower, "-android-apk-download/") THEN "bundle"
        ELSE IF AnyIn(<<"bundle", "aab", "app bundle">>, combined_text) THEN "bundle"
        ELSE IF AnyIn(<<"apk", "android package">>, combined_text) THEN "apk"
        ELSE "other"

OfClass(arch_variants, class) ==
    SelectSeq(arch_variants, LAMBDA v : PackagingClass(v) = class)

(* lines 419-429 without the [:1] *)
PreferredOfKeepAll(arch_variants) ==
    IF Len(arch_variants) = 1 THEN arch_variants
    ELSE IF OfClass(arch_variants, "apk") # <<>> THEN OfClass(arch_variants, "apk")
    ELSE IF OfClass(arch_variants, "bundle") # <<>>
         THEN OfClass(arch_variants, "bundle")
    ELSE OfClass(arch_variants, "other")

(* lines 419-429 with the bundle branch first *)
PreferredOfBundleFirst(arch_variants) ==
    IF Len(arch_variants) = 1 THEN arch_variants
    ELSE IF OfClass(arch_variants, "bundle") # <<>>
         THEN <<Head(OfClass(arch_variants, "bundle"))>>
    ELSE IF OfClass(arch_variants, "apk") # <<>>
         THEN <<Head(OfClass(arch_variants, "apk"))>>
    ELSE IF OfClass(arch_variants, "other") # <<>>
         THEN <<Head(OfClass(arch_variants, "other"))>>
    ELSE <<>>

(* lines 369-429 *)
PreferredOf(arch_variants) ==
    IF Len(arch_variants) = 1 THEN arch_variants
    ELSE IF OfClass(arch_variants, "apk") # <<>>
         THEN <<Head(OfClass(arch_variants, "apk"))>>
    ELSE IF OfClass(arch_variants, "bundle") # <<>>
         THEN <<Head(OfClass(arch_variants, "bundle"))>>
    ELSE IF OfClass(arch_variants, "other") # <<>>
         THEN <<Head(OfClass(arch_variants, "other"))>>
    ELSE <<>>

RECURSIVE FilterGroups(_, _, _)
FilterGroups(variants, groups, g) ==
    IF g > Len(groups) THEN <<>>
    ELSE PreferredOf(SelectSeq(variants,
                               LAMBDA v : v.architecture = groups[g]))
         \o FilterGroups(variants, groups, g + 1)

filter_prefer_apk_downloads(variants) ==
    IF variants = <<>> THEN variants
    ELSE Then(ArchGroups(variants, 1, <<>>),
              LAMBDA groups : FilterGroups(variants, groups, 1))

(* lines 217-335: the variants both passes collect, before the filter *)
AllCandidates(page, version_page_url, archs) ==
    Then(KeywordPass(<<>>, page, archs, version_page_url, 1),
         LAMBDA method1 :
             ExhaustivePass(method1, page, archs, version_page_url, 1))

(* lines 210-344: both passes, then the packaging preference filter *)
get_variants_from_version_page(page, version_page_url, archs) ==
    Then(AllCandidates(page, version_page_url, archs),
         LAMBDA variants :
             IF variants # <<>> THEN filter_prefer_apk_downloads(variants)
             ELSE variants)

(***************************************************************************)
(* APKMirrorParser.get_direct_download_link.                               *)
(*                                                                         *)
(* A variant page is [anchors, forms]: the <a> elements in document order, *)
(* each [class, string, has_href, href], and the <form> elements, each     *)
(* [has_action, action].  The response of the next hop is [content_type,   *)
(* content_disposition, url, hrefs, has_meta, meta]: its headers, its      *)
(* final URL, the hrefs of the <a> elements of its body and the content of *)
(* its <meta http-equiv="refresh">.  A fetch is "ok" or fails with a       *)
(* timeout, a connection error or an HTTP error status.                    *)
(***************************************************************************)
NoLink == ""

FetchOutcomes == {"ok", "timeout", "connection", "http_error"}

(* the first index of seq that satisfies Test, 0 when there is none *)
FirstIndex(seq, Test(_)) ==
    LET at == { k \in 1..Len(seq) : Test(seq[k]) }
    IN  IF at = {} THEN 0 ELSE CHOOSE k \in at : \A j \in at : k <= j

(* re.compile(r'.*download.*apk.*', re.IGNORECASE) on a string *)
DownloadThenApk(s) ==
    \E i \in 1..Len(s) :
        /\ i + 7 <= Len(s)
        /\ Lower(SubSeq(s, i, i + 7)) = "download"
        /\ Contains(Lower(SubSeq(s, i + 8, Len(s))), "apk")

(* lines 566-578: the four patterns, the first that finds an element *)
DownloadButton(page) ==
    LET p1 == FirstIndex(page.anchors,
                         LAMBDA a : Contains(Lower(a.class), "downloadbutton"))
        p2 == FirstIndex(page.anchors, LAMBDA a : DownloadThenApk(a.string))
        p3 == FirstIndex(page.anchors,
                         LAMBDA a : \/ Contains(Lower(a.class), "download")
                                    \/ Contains(Lower(a.class), "btn-primary"))
        p4 == FirstIndex(page.anchors,
                         LAMBDA a : a.has_href /\ Contains(a.href, "download"))
    IN  IF p1 # 0 THEN p1 ELSE IF p2 # 0 THEN p2 ELSE IF p3 # 0 THEN p3 ELSE p4

(* line 619: soup.find_all('a', href=re.compile(r'.*(?:download|\.apk).*')) *)
OtherLink(page) ==
    FirstIndex(page.anchors,
               LAMBDA a : a.has_href /\ (\/ Contains(a.href, "download")
                                         \/ Contains(a.href, ".apk")))

(* lines 584-630: the URL of the next hop, NoLink when the function        *)
(* returns None before fetching it                                         *)
NextHop(variant_page_url, page) ==
    LET button == DownloadButton(page)
    IN  IF button = 0 THEN NoLink
        ELSE IF ~page.anchors[button].has_href \/ page.anchors[button].href = ""
        THEN NoLink
        ELSE IF StartsWith(page.anchors[button].href, "#")
        THEN IF page.forms # <<>>
             THEN IF page.forms[1].has_action /\ page.forms[1].action # ""
                  THEN urljoin(variant_page_url, page.forms[1].action)
                  ELSE variant_page_url
             ELSE IF OtherLink(page) # 0
                  THEN urljoin(variant_page_url, page.anchors[OtherLink(page)].href)
                  ELSE NoLink
        ELSE urljoin(variant_page_url, page.anchors[button].href)

(* lines 643-649 *)
IsApkResponse(response) ==
    \/ Contains(Lower(response.content_type), "application/vnd.android.package-archive")
    \/ Contains(Lower(response.content_type), "application/octet-stream")
    \/ Contains(response.content_disposition, ".apk")
    \/ EndsWith(response.url, ".apk")

(* lines 658-662: final_patterns *)
FinalPatternMatches(n, href) ==
    CASE n = 1 -> EndsWith(href, ".apk") \/ Contains(href, ".apk?")
      [] n = 2 -> Contains(href, "download.php")
      [] n = 3 -> Contains(href, "getdownload")

(* lines 664-671: the first pattern that finds a link decides *)
FinalLink(download_url, hrefs) ==
    LET found == { n \in 1..3 :
                     FirstIndex(hrefs, LAMBDA h : FinalPatternMatches(n, h)) # 0 }
    IN  IF found = {} THEN NoLink
        ELSE LET n == CHOOSE m \in found : \A j \in found : m <= j
             IN  urljoin(download_url,
                         hrefs[FirstIndex(hrefs,
                                          LAMBDA h : FinalPatternMatches(n, h))])

(* str.find / str.strip on the shapes a refresh content has *)
Find(s, sub) ==
    LET at == { i \in 1..(Len(s) - Len(sub) + 1) :
                  SubSeq(s, i, i + Len(sub) - 1) = sub }
    IN  IF at = {} THEN 0 ELSE CHOOSE i \in at : \A j \in at : i <= j

RECURSIVE Strip(_)
Strip(s) ==
    IF Len(s) > 0 /\ SubSeq(s, 1, 1) = " " THEN Strip(SubSeq(s, 2, Len(s)))
    ELSE IF Len(s) > 0 /\ SubSeq(s, Len(s), Len(s)) = " "
    THEN Strip(SubSeq(s, 1, Len(s) - 1))
    ELSE s

(* content.split('url=')[1]: the text between the first 'url=' and the     *)
(* next one                                                                *)
SplitSecond(content) ==
    LET rest == SubSeq(content, Find(content, "url=") + 4, Len(content))
    IN  IF Find(rest, "url=") = 0 THEN rest
        ELSE SubSeq(rest, 1, Find(rest, "url=") - 1)

(* lines 674-682: [raised, link].  The test lowers the content, the split  *)
(* does not: a content with 'URL=' raises IndexError.                      *)
MetaRefresh(download_url, response) ==
    IF response.has_meta /\ Contains(Lower(response.meta), "url=")
    THEN IF Contains(response.meta, "url=")
         THEN [raised |-> "",
               link |-> urljoin(download_url, Strip(SplitSecond(response.meta)))]
         ELSE [raised |-> "IndexError", link |-> NoLink]
    ELSE [raised |-> "", link |-> NoLink]

(* lines 639-687 after a successful fetch: [raised, link] *)
FromResponse(download_url, response) ==
    IF IsApkResponse(response) THEN [raised |-> "", link |-> response.url]
    ELSE IF FinalLink(download_url, response.hrefs) # NoLink
    THEN [raised |-> "", link |-> FinalLink(download_url, response.hrefs)]
    ELSE MetaRefresh(download_url, response)

NoVariantPage == [anchors |-> <<>>, forms |-> <<>>]

NoResponse == [content_type |-> "", content_disposition |-> "", url |-> "",
               hrefs |-> <<>>, has_meta |-> FALSE, meta |-> ""]

(* line 689: except Exception, around the next hop *)
CaughtInner(failure) == TRUE

(* a handler that names the transport's errors and lets the HTTPError of   *)
(* raise_for_status pass                                                   *)
CaughtOuterTransportOnly(failure) == failure \in {"timeout", "connection"}

(* line 695: except Exception, around the whole function *)
CaughtOuter(failure) == TRUE

(* the link found in the body of the next hop fetched in its turn *)
FetchedFollowing(variant_page_url, download_url, step2) ==
    IF step2.link = NoLink THEN <<variant_page_url, download_url>>
    ELSE <<variant_page_url, download_url, step2.link>>

(* lines 555 and 639: the URLs a call that reached the next hop got with   *)
(* session.get, in order; what 651 and 670-681 find is returned            *)
Fetched(variant_page_url, download_url, step2) ==
    <<variant_page_url, download_url>>

(* lines 548-700: [raised, next_hop, link, fetched]; raised is the         *)
(* exception that leaves the function, "" when it returns                  *)
get_direct_download_link(variant_page_url, input) ==
    IF input.fetch # "ok"
    THEN [raised |-> IF CaughtOuter(input.fetch) THEN "" ELSE input.fetch,
          next_hop |-> NoLink, link |-> NoLink, fetched |-> <<variant_page_url>>]
    ELSE LET download_url == NextHop(variant_page_url, input.page)
             step2 == IF input.next_fetch # "ok"
                      THEN [raised |-> input.next_fetch, link |-> NoLink]
                      ELSE FromResponse(download_url, input.next_response)
         IN  IF download_url = NoLink
             THEN [raised |-> "", next_hop |-> NoLink, link |-> NoLink,
                   fetched |-> <<variant_page_url>>]
             ELSE IF step2.raised = ""
             THEN [raised |-> "", next_hop |-> download_url, link |-> step2.link,
                   fetched |-> Fetched(variant_page_url, download_url, step2)]
             ELSE [raised |-> IF CaughtInner(step2.raised) \/ CaughtOuter(step2.raised)
                              THEN "" ELSE step2.raised,
                   next_hop |-> download_url, link |-> NoLink,
                   fetched |-> Fetched(variant_page_url, download_url, step2)]

(***************************************************************************)
(* The inputs of the model: the site's pages, the configuration and the    *)
(* patch analysis.                                                         *)
(***************************************************************************)
(* A row of a version page's variant table: one download link and the     *)
(* texts of the row's cells.  PageOf gives the page as the queries see it: *)
(* the text node of the link itself has the <a> as parent (which holds no  *)
(* link) and the link's cell as grandparent; the text node of another cell *)
(* has that cell as parent and the row as grandparent.                     *)
Row(href, text, cells, has_row) ==
    [href |-> href, text |-> text, cells |-> cells, has_row |-> has_row]

RECURSIVE JoinText(_)
JoinText(texts) ==
    IF texts = <<>> THEN "" ELSE Head(texts) \o JoinText(Tail(texts))

RowLink(row) ==
    [href |-> row.href, text |-> row.text, parent_text |-> row.text,
     has_row |-> row.has_row,
     row_text |-> row.text \o JoinText(row.cells)]

RowNodes(row, i) ==
    <<[text |-> row.text, parent |-> <<>>, has_grand |-> TRUE, grand |-> <<i>>]>>
    \o [c \in 1..Len(row.cells) |->
           [text |-> row.cells[c], parent |-> <<>>, has_grand |-> TRUE,
            grand |-> <<i>>]]

RECURSIVE AllRowNodes(_, _)
AllRowNodes(rows, i) ==
    IF i > Len(rows) THEN <<>>
    ELSE RowNodes(rows[i], i) \o AllRowNodes(rows, i + 1)

PageOf(rows) ==
    [links |-> [i \in 1..Len(rows) |-> RowLink(rows[i])],
     nodes |-> AllRowNodes(rows, 1)]

RowBundle == Row("/yt-android-apk-download/", "v1", <<"BUNDLE", "arm64-v8a">>, TRUE)
RowApk64  == Row("/yt-2-android-apk-download/", "v1", <<"APK", "arm64-v8a">>, TRUE)
RowApkV7  == Row("/yt-3-android-apk-download/", "v1", <<"APK", "armeabi-v7a">>, TRUE)
RowX64    == Row("/yt-4-android-apk-download/", "v1", <<"APK", "x86_64">>, TRUE)
RowPlain  == Row("/yt-5-android-apk-download/", "Download", <<>>, FALSE)
RowNoarch == Row("/yt-6-android-apk-download/", "v1", <<"APK", "NoArch">>, TRUE)

(* No page: nothing was fetched, or the fetch failed. *)
NoPage == [links |-> <<>>, nodes |-> <<>>]

(* The version pages the site serves to the orchestrator. *)
SitePages ==
    { PageOf(<<>>),
      PageOf(<<RowApk64>>),
      PageOf(<<RowBundle, RowApk64, RowApkV7>>),
      PageOf(<<RowPlain>>) }

AppYouTube ==
    [name |-> "YouTube", package_name |-> "com.google.android.youtube",
     download_url |-> "https://www.apkmirror.com/apk/google-inc/youtube/"]
AppPhotos ==
    [name |-> "Google Photos", package_name |-> "com.google.android.apps.photos",
     download_url |-> "https://www.apkmirror.com/apk/google-inc/photos/"]
AppMusic ==
    [name |-> "Music", package_name |-> "com.example.music",
     download_url |-> "https://www.apkmirror.com/apk/example/music/"]

(* config/apps.json lists these apps in this order; which of them are     *)
(* enabled varies.                                                         *)
ConfigApps == <<AppYouTube, AppPhotos, AppMusic>>

(* downloads/patch_analysis.json as patch_analyzer.py writes it: specific *)
(* versions for YouTube, any version for Google Photos, no entry for the  *)
(* others.                                                                 *)
PatchedPackages == {AppYouTube.package_name, AppPhotos.package_name}

patch_analysis(package_name) ==
    IF package_name = AppYouTube.package_name
    THEN [supported_versions |-> <<"20.14.43", "20.13.41">>,
          recommended_version |-> "20.14.43",
          supports_any_version |-> FALSE]
    ELSE [supported_versions |-> <<"any">>,
          recommended_version |-> "latest",
          supports_any_version |-> TRUE]

(* What the catalog root of an app lists (newest first). *)
CatalogListing(app) ==
    IF app.name = "Google Photos"
    THEN <<[url |-> app.download_url \o "google-photos-7-50-0-818774663-release/",
            version |-> "7.50.0", constructed |-> FALSE],
           [url |-> app.download_url \o "google-photos-7-49-0-818000000-release/",
            version |-> "7.49.0", constructed |-> FALSE]>>
    ELSE <<[url |-> app.download_url \o "music-5-1-0-release/",
            version |-> "5.1.0", constructed |-> FALSE],
           [url |-> app.download_url \o "music-5-0-0-release/",
            version |-> "5.0.0", constructed |-> FALSE]>>

ArchLists ==
    { <<"arm64-v8a">>,
      <<"arm64-v8a", "armeabi-v7a">>,
      <<"arm64-v8a", "universal">> }

EnabledFlags ==
    { f \in [1..Len(ConfigApps) -> BOOLEAN] :
        Cardinality({ i \in DOMAIN f : f[i] }) <= MaxApps }

(***************************************************************************)
(* The state.                                                              *)
(***************************************************************************)
VARIABLES
    pc,                \* position of the process: main / download_app_apks / download_single_apk
    enabled,           \* config: which of ConfigApps are enabled
    architectures,     \* settings['architectures']
    download_multiple, \* settings['download_multiple_architectures']
    max_retries,       \* settings['max_retries']
    enabled_apps,      \* main: enabled_apps
    app_i,             \* main: index of the app being processed (1-based)
    results,           \* main: results = {'successful': [...], 'failed': [...]}
    exit_code,         \* main: the value returned (NoExit until it returns)
    exc,               \* the exception in flight or last raised ("" when none)
    version_pages,     \* download_app_apks: version_pages
    page_i,            \* download_app_apks: index into version_pages
    variants,          \* download_app_apks: variants of the current page
    variant_i,         \* download_app_apks: index into variants
    found_variants,    \* download_app_apks: found_variants (arch -> path)
    downloaded_files,  \* download_app_apks: downloaded_files
    missing_log,       \* download_app_apks: missing_log as read from the report
    ret,               \* download_app_apks: the returned (success, paths)
    output_path,       \* download_single_apk: output_path
    attempt,           \* download_single_apk: attempts started so far
    dl_success,        \* download_app_apks: success of download_single_apk
    fs,                \* the files under downloads/<package>/: path -> content
    report,            \* downloads/missing_architectures.json: [exists, log]
    fail_first,        \* the transport: it fails the first fail_first attempts of this call
    partial,           \* history: a failed attempt of this call left bytes in the file
    earlier,           \* history: the run of main before this one, NoRun when there is none
    soups,             \* history: the version pages this run was served, in order
    pipeline_log,      \* logs/pipeline_history.json: [exists, history]
    logged,            \* history: every entry ever logged, in logging order
    log_calls,         \* history: the calls of the logger so far
    calls,             \* history: the apps download_app_apks was called for
    resolved,          \* history: the architectures resolved in this app run
    no_link,           \* history: the paths whose variant resolved to None in this app run
    report_at_start,   \* history: the report when this app run started
    written,           \* history: the paths a successful download wrote in this app run
    opened,            \* history: the paths opened for writing (line 733) in this app run
    soup,              \* _get_variants_from_version_page: the page it parsed last
    peer_pc,           \* a second engine instance: its position ("off" when there is none)
    peer_log,          \* the second instance's missing_log as read from the report
    candidates,        \* _get_variants_from_version_page: variants before the filter
    resolve_in,        \* get_direct_download_link: the pages and fetch outcomes it meets
    resolve_out,       \* get_direct_download_link: [raised, next_hop, link]
    app_url,           \* get_all_version_pages: app_url
    version_links,     \* get_all_version_pages: version_links, as hrefs
    catalog_limit,     \* get_all_version_pages: limit
    extract_url,       \* _extract_version_from_url: url
    extract_version    \* _extract_version_from_url: the returned string

vars == <<pc, enabled, architectures, download_multiple, max_retries,
          enabled_apps, app_i, results, exit_code, exc, version_pages, page_i,
          variants, variant_i, found_variants, downloaded_files, missing_log,
          ret, output_path, attempt, dl_success, fs, report, fail_first, partial,
          earlier, soups, pipeline_log, logged, log_calls,
          calls, resolved, no_link, report_at_start, written, opened, soup, peer_pc,
          peer_log, candidates, resolve_in, resolve_out, app_url, version_links,
          catalog_limit, extract_url, extract_version>>

config_vars == <<enabled, architectures, download_multiple, max_retries>>
main_vars == <<enabled_apps, app_i, results, exit_code>>
app_vars == <<version_pages, page_i, variants, variant_i, found_variants,
              downloaded_files, missing_log, ret>>
dl_vars == <<output_path, attempt, dl_success, fail_first, partial>>
hist_vars == <<calls, resolved, no_link, report_at_start, written, opened>>
peer_vars == <<peer_pc, peer_log>>
rerun_vars == <<earlier, soups>>
logger_vars == <<pipeline_log, logged, log_calls>>
resolve_vars == <<resolve_in, resolve_out>>
catalog_vars == <<app_url, version_links, catalog_limit>>
version_vars == <<extract_url, extract_version>>
pure_vars == <<candidates, resolve_vars, catalog_vars, version_vars>>

NoExit == 0 - 1  \* main has not returned
ExitSuccess == 0
ExitCritical == 1
ExitAllFailed == 2

AnyVersionLimit == 10
FallbackLimit == 5

EmptyMap == [a \in {} |-> ""]

(* dict[key] = value *)
Put(map, key, value) ==
    [k \in DOMAIN map \cup {key} |-> IF k = key THEN value ELSE map[k]]

(* The body every final URL serves, in chunks; a file left by an earlier  *)
(* run of the pipeline holds OldBody.                                      *)
Body == <<"chunk1", "chunk2">>
OldBody == <<"old">>

(***************************************************************************)
(* Helpers of download_app_apks.                                           *)
(***************************************************************************)
(* str.replace of one character, computed by halves *)
RECURSIVE Replace(_, _, _)
Replace(s, from, to) ==
    IF Len(s) = 0 THEN ""
    ELSE IF Len(s) = 1 THEN (IF s = from THEN to ELSE s)
    ELSE Replace(SubSeq(s, 1, Len(s) \div 2), from, to)
         \o Replace(SubSeq(s, Len(s) \div 2 + 1, Len(s)), from, to)

RECURSIVE RStrip(_, _)
RStrip(s, c) ==
    IF Len(s) > 0 /\ SubSeq(s, Len(s), Len(s)) = c
    THEN RStrip(SubSeq(s, 1, Len(s) - 1), c) ELSE s

LastSegment(s) == SubSeq(s, LastIndex(s, "/") + 1, Len(s))

(***************************************************************************)
(* APKMirrorParser._extract_version_from_url.                              *)
(*                                                                         *)
(* The regular expressions are computed by hand.  In each of them a run of *)
(* digits is followed by a character that is not a digit, so it is a       *)
(* maximal run, and re.search returns the leftmost match.  A               *)
(* match is [found, text], text being the value the handler returns.       *)
(***************************************************************************)
NoMatch == [found |-> FALSE, text |-> ""]

Match(text) == [found |-> TRUE, text |-> text]

(* s[i:i+1], "" outside the string *)
At(s, i) == IF i >= 1 /\ i <= Len(s) THEN SubSeq(s, i, i) ELSE ""

(* s.startswith(literal, i - 1) *)
HasAt(s, i, literal) ==
    /\ i >= 1
    /\ i + Len(literal) - 1 <= Len(s)
    /\ SubSeq(s, i, i + Len(literal) - 1) = literal

IsDigit(c) == c \in {"0", "1", "2", "3", "4", "5", "6", "7", "8", "9"}

Min(S) == CHOOSE x \in S : \A y \in S : x <= y

Max(S) == CHOOSE x \in S : \A y \in S : x >= y

(* the end of the maximal run of digits that starts at i, i - 1 when s has *)
(* no digit at i                                                           *)
DigitsEnd(s, i) ==
    LET stops == { k \in i..Len(s) : ~IsDigit(SubSeq(s, k, k)) }
    IN  IF i > Len(s) THEN i - 1
        ELSE IF stops = {} THEN Len(s) ELSE Min(stops) - 1

(* runs of digits joined by sep, from i, as many as there are: [end,       *)
(* runs], runs = 0 when s has no digit at i                                *)
RECURSIVE Chain(_, _, _)
Chain(s, i, sep) ==
    Then(DigitsEnd(s, i), LAMBDA e :
        IF e < i THEN [end |-> i - 1, runs |-> 0]
        ELSE IF At(s, e + 1) = sep /\ IsDigit(At(s, e + 2))
        THEN Then(Chain(s, e + 2, sep), LAMBDA rest :
                  [end |-> rest.end, runs |-> rest.runs + 1])
        ELSE [end |-> e, runs |-> 1])

(* the position of the k-th occurrence of c in s *)
KthPosition(s, c, k) ==
    CHOOSE i \in Positions(s, c) :
        Cardinality({ j \in Positions(s, c) : j <= i }) = k

(* the first k runs of a chain of more than k runs *)
FirstRuns(chain, sep, k) == SubSeq(chain, 1, KthPosition(chain, sep, k) - 1)

(* lines 173 and 178: the prefix, four runs of digits joined by dashes and *)
(* "-release"; the first three runs joined by dots                         *)
NumberedBuild(s, prefix) ==
    LET starts == { p \in 1..Len(s) :
                      /\ HasAt(s, p, prefix)
                      /\ Chain(s, p + Len(prefix), "-").runs = 4
                      /\ HasAt(s, Chain(s, p + Len(prefix), "-").end + 1,
                               "-release") }
    IN  IF starts = {} THEN NoMatch
        ELSE LET from == Min(starts) + Len(prefix)
             IN  Match(Replace(FirstRuns(SubSeq(s, from, Chain(s, from, "-").end),
                                         "-", 3),
                               "-", "."))

(* lines 171-181: the app-family handler *)
PhotosRelease(s) ==
    IF Contains(s, "google-photos") \/ Contains(s, "/photos/")
    THEN IF NumberedBuild(s, "google-photos-").found
         THEN NumberedBuild(s, "google-photos-")
         ELSE NumberedBuild(s, "photos-")
    ELSE NoMatch

(* lines 183-185: a dash, two or more runs of digits joined by dashes and  *)
(* "-release"; the dashes of the runs replaced by dots                     *)
StandardRelease(s) ==
    LET starts == { p \in Positions(s, "-") :
                      /\ Chain(s, p + 1, "-").runs >= 2
                      /\ HasAt(s, Chain(s, p + 1, "-").end + 1, "-release") }
    IN  IF starts = {} THEN NoMatch
        ELSE LET p == Min(starts)
             IN  Match(Replace(SubSeq(s, p + 1, Chain(s, p + 1, "-").end),
                               "-", "."))

(* ".0" repeated from i, as often as it is there: the end of the match *)
RECURSIVE DotZerosEnd(_, _)
DotZerosEnd(s, i) ==
    IF HasAt(s, i, ".0") THEN DotZerosEnd(s, i + 2) ELSE i - 1

(* group 2 of line 188 from i: two or more runs of digits joined by dots,  *)
(* then "-release" if it is there, then ".0" repeated: its end             *)
DottedGroupEnd(s, i) ==
    LET e == Chain(s, i, ".").end
    IN  IF HasAt(s, e + 1, "-release") THEN DotZerosEnd(s, e + 9)
        ELSE DotZerosEnd(s, e + 1)

(* line 191 left out *)
CleanReleaseSkipped(version_part) == version_part

(* line 191: re.sub(r'-release.*', '', version_part) *)
CleanRelease(version_part) ==
    IF Find(version_part, "-release") = 0 THEN version_part
    ELSE SubSeq(version_part, 1, Find(version_part, "-release") - 1)

(* lines 188-192: a slash, one or more characters other than a slash, a    *)
(* dash and group 2: the leftmost slash, and in its path segment the last  *)
(* dash that a dotted version follows                                      *)
SegmentDotted(s) ==
    LET SegmentEnd(p) == IF IndexFrom(s, "/", p + 1) = 0 THEN Len(s)
                         ELSE IndexFrom(s, "/", p + 1) - 1
        Dashes(p) == { k \in (p + 2)..SegmentEnd(p) :
                         At(s, k) = "-" /\ Chain(s, k + 1, ".").runs >= 2 }
        starts == { p \in Positions(s, "/") : Dashes(p) # {} }
    IN  IF starts = {} THEN NoMatch
        ELSE LET k == Max(Dashes(Min(starts)))
             IN  Match(CleanRelease(SubSeq(s, k + 1, DottedGroupEnd(s, k + 1))))

(* lines 196-198: three or more runs of digits joined by dots *)
DirectDotted(s) ==
    LET starts == { i \in 1..Len(s) :
                      IsDigit(SubSeq(s, i, i)) /\ Chain(s, i, ".").runs >= 3 }
    IN  IF starts = {} THEN NoMatch
        ELSE Match(SubSeq(s, Min(starts), Chain(s, Min(starts), ".").end))

(* line 201 at the dash of position p: three runs of digits joined by      *)
(* dashes, a fourth if a dash follows it too, and a dash; the number of    *)
(* groups that take part, 0 when there is no match at p                    *)
DashedGroups(s, p) ==
    LET c == Chain(s, p + 1, "-")
    IN  IF c.runs >= 5 THEN 4
        ELSE IF c.runs = 4 THEN (IF At(s, c.end + 1) = "-" THEN 4 ELSE 3)
        ELSE IF c.runs = 3 /\ At(s, c.end + 1) = "-" THEN 3
        ELSE 0

(* lines 201-204: the groups joined by dots *)
DashedNumbers(s) ==
    LET starts == { p \in Positions(s, "-") : DashedGroups(s, p) > 0 }
    IN  IF starts = {} THEN NoMatch
        ELSE LET p == Min(starts)
                 chain == SubSeq(s, p + 1, Chain(s, p + 1, "-").end)
                 groups == DashedGroups(s, p)
             IN  Match(Replace(IF Chain(s, p + 1, "-").runs > groups
                               THEN FirstRuns(chain, "-", groups) ELSE chain,
                               "-", "."))

(* line 206 *)
FallbackVersion == "0.0.0"

(* the handlers with the generic dashed handler tried before the           *)
(* app-family handler                                                      *)
ExtractGenericFirst(s) ==
    IF StandardRelease(s).found THEN StandardRelease(s).text
    ELSE IF PhotosRelease(s).found THEN PhotosRelease(s).text
    ELSE IF SegmentDotted(s).found THEN SegmentDotted(s).text
    ELSE IF DirectDotted(s).found THEN DirectDotted(s).text
    ELSE IF DashedNumbers(s).found THEN DashedNumbers(s).text
    ELSE FallbackVersion

(* lines 162-206: the handlers in their order, the first match returns *)
extract_version_from_url(s) ==
    IF PhotosRelease(s).found THEN PhotosRelease(s).text
    ELSE IF StandardRelease(s).found THEN StandardRelease(s).text
    ELSE IF SegmentDotted(s).found THEN SegmentDotted(s).text
    ELSE IF DirectDotted(s).found THEN DirectDotted(s).text
    ELSE IF DashedNumbers(s).found THEN DashedNumbers(s).text
    ELSE FallbackVersion

(***************************************************************************)
(* APKMirrorParser.get_all_version_pages, from the links it collected      *)
(* (version_links, as their hrefs in collection order) to its result.      *)
(***************************************************************************)
(* seq[:n] *)
Head_n(seq, n) == SubSeq(seq, 1, IF n < Len(seq) THEN n ELSE Len(seq))

(* lines 106-112: the links with a non-empty href not seen before *)
RECURSIVE DedupeHrefs(_, _, _)
DedupeHrefs(hrefs, k, unique_links) ==
    IF k > Len(hrefs) THEN unique_links
    ELSE Then(IF hrefs[k] # "" /\ hrefs[k] \notin Range(unique_links)
              THEN Append(unique_links, hrefs[k]) ELSE unique_links,
              LAMBDA next : DedupeHrefs(hrefs, k + 1, next))

(* lines 119-120: href.split('#')[0] *)
StripFragment(href) ==
    IF Find(href, "#") = 0 THEN href ELSE SubSeq(href, 1, Find(href, "#") - 1)

DigitValue(c) == (CHOOSE i \in 1..10 : SubSeq("0123456789", i, i) = c) - 1

(* int() of a run of digits *)
RECURSIVE ToInt(_)
ToInt(digits) ==
    IF Len(digits) = 0 THEN 0
    ELSE 10 * ToInt(SubSeq(digits, 1, Len(digits) - 1))
         + DigitValue(SubSeq(digits, Len(digits), Len(digits)))

(* line 130: int(parts[0]) *)
Major(version_str) ==
    ToInt(IF Find(version_str, ".") = 0 THEN version_str
          ELSE SubSeq(version_str, 1, Find(version_str, ".") - 1))

(* lines 127-138: the version is skipped by the bounds of its app family *)
OutOfBounds(url, version_str) ==
    /\ Contains(version_str, ".")
    /\ LET major == Major(version_str)
       IN  IF Contains(url, "youtube") THEN major < 10 \/ major > 50
           ELSE IF Contains(url, "photos") THEN major < 1 \/ major > 20
           ELSE major < 1 \/ major > 100

(* lines 114-146: the version pages of the links, in order *)
RECURSIVE VersionPagesOf(_, _, _, _)
VersionPagesOf(url, links, k, pages) ==
    IF k > Len(links) THEN pages
    ELSE LET href == StripFragment(links[k])
         IN  Then(extract_version_from_url(href), LAMBDA version_str :
               Then(IF version_str # FallbackVersion /\ ~OutOfBounds(url, version_str)
                    THEN Append(pages, [url |-> urljoin(url, href),
                                        version |-> version_str, href |-> href])
                    ELSE pages,
                    LAMBDA next : VersionPagesOf(url, links, k + 1, next)))

(* lines 148-154: the first page of each version *)
RECURSIVE DedupeVersions(_, _, _)
DedupeVersions(pages, k, unique_versions) ==
    IF k > Len(pages) THEN unique_versions
    ELSE Then(IF \E i \in 1..Len(unique_versions) :
                    unique_versions[i].version = pages[k].version
              THEN unique_versions ELSE Append(unique_versions, pages[k]),
              LAMBDA next : DedupeVersions(pages, k + 1, next))

(* lines 105-156 *)
get_all_version_pages(url, hrefs, n) ==
    Then(Head_n(DedupeHrefs(hrefs, 1, <<>>), n), LAMBDA unique_links :
      Then(VersionPagesOf(url, unique_links, 1, <<>>), LAMBDA pages :
        Head_n(DedupeVersions(pages, 1, <<>>), n)))

(* lines 850-863 *)
ConstructedPage(app, version) ==
    LET version_parts == Replace(version, ".", "-")
        app_name == LastSegment(RStrip(app.download_url, "/"))
    IN  [url |-> app.download_url \o app_name \o "-" \o version_parts
                 \o "-release/",
         version |-> version, constructed |-> TRUE]

RECURSIVE ConstructedPages(_, _, _)
ConstructedPages(app, supported_versions, k) ==
    IF k > Len(supported_versions) THEN <<>>
    ELSE (IF supported_versions[k] = "any" THEN <<>>
          ELSE <<ConstructedPage(app, supported_versions[k])>>)
         \o ConstructedPages(app, supported_versions, k + 1)

(* lines 774-790 *)
PatchInfo(app) ==
    IF app.package_name \in PatchedPackages
    THEN patch_analysis(app.package_name)
    ELSE [supported_versions |-> <<>>, recommended_version |-> "",
          supports_any_version |-> FALSE]

(* lines 807, 838, 869: which version strategy the run takes *)
Strategy(info) ==
    IF \/ info.supports_any_version
       \/ (info.supported_versions # <<>> /\ info.supported_versions[1] = "any")
    THEN "any"
    ELSE IF info.supported_versions # <<>> /\ info.supported_versions # <<"any">>
    THEN "specific"
    ELSE "fallback"

(* parser.get_all_version_pages(url, limit): what the catalog lists, cut  *)
(* to the limit, or less of it down to nothing (fetch error, parse miss). *)
DiscoveredLists(app, limit) ==
    { SubSeq(CatalogListing(app), 1, n) :
        n \in 0..(IF Len(CatalogListing(app)) < limit
                  THEN Len(CatalogListing(app)) ELSE limit) }

(* lines 799-800: app_dir *)
AppDir(app) == "downloads/" \o app.package_name \o "/"

(* lines 910-911 with a file name that leaves the architecture out *)
OutputPathPerVersion(app, version_str, arch) ==
    AppDir(app) \o app.package_name \o "-v" \o version_str \o ".apk"

(* lines 910-911 *)
OutputPath(app, version_str, arch) ==
    AppDir(app) \o app.package_name \o "-v" \o version_str \o "-" \o arch \o ".apk"

CurrentApp == enabled_apps[app_i]

(* line 957 without the subtraction *)
MissingNotSubtracted == Range(architectures)

(* lines 955-971 *)
MissingArchitectures == Range(architectures) \ DOMAIN found_variants

MissingInfo ==
    [app |-> CurrentApp.name,
     package_name |-> CurrentApp.package_name,
     requested_architectures |-> Range(architectures),
     found_architectures |-> DOMAIN found_variants,
     missing_architectures |-> MissingArchitectures,
     versions_checked |-> [i \in 1..Len(version_pages) |-> version_pages[i].version]]

(***************************************************************************)
(* Initial states.                                                         *)
(***************************************************************************)
PreexistingPaths ==
    { OutputPath(AppYouTube, "20.14.43", "arm64-v8a"),
      OutputPath(AppPhotos, "7.50.0", "arm64-v8a") }

InitialFiles == { EmptyMap, [p \in PreexistingPaths |-> OldBody] }

EarlierRecord ==
    [app |-> "Earlier", package_name |-> "com.example.earlier",
     requested_architectures |-> {"x86"}, found_architectures |-> {},
     missing_architectures |-> {"x86"}, versions_checked |-> <<"1.0.0">>]

InitialReports ==
    { [exists |-> FALSE, log |-> <<>>],
      [exists |-> TRUE, log |-> [i \in 1..MaxEarlier |-> EarlierRecord]] }

NoRun == [ran |-> FALSE]

InitRun ==
    /\ earlier = NoRun
    /\ soups = <<>>
    /\ enabled_apps = <<>>
    /\ app_i = 1
    /\ results = [successful |-> <<>>, failed |-> <<>>]
    /\ exit_code = NoExit
    /\ exc = ""
    /\ version_pages = <<>>
    /\ page_i = 1
    /\ variants = <<>>
    /\ variant_i = 1
    /\ found_variants = EmptyMap
    /\ downloaded_files = <<>>
    /\ missing_log = <<>>
    /\ ret = [success |-> FALSE, paths |-> <<>>]
    /\ output_path = ""
    /\ attempt = 0
    /\ dl_success = FALSE
    /\ fail_first = 0
    /\ partial = FALSE
    /\ calls = <<>>
    /\ resolved = <<>>
    /\ no_link = {}
    /\ report_at_start = report
    /\ written = {}
    /\ opened = {}
    /\ soup = NoPage
    /\ peer_log = <<>>

(* The inputs of the functions checked on their own, when they are not    *)
(* under check.                                                            *)
InitResolveIdle ==
    /\ resolve_in = [page |-> NoVariantPage, fetch |-> "", next_fetch |-> "",
                     next_response |-> NoResponse]
    /\ resolve_out = [raised |-> "", next_hop |-> NoLink, link |-> NoLink,
                      fetched |-> <<>>]

InitCatalogIdle ==
    /\ app_url = ""
    /\ version_links = <<>>
    /\ catalog_limit = 0

InitVersionIdle ==
    /\ extract_url = ""
    /\ extract_version = ""

InitLoggerIdle ==
    /\ pipeline_log = [exists |-> FALSE, history |-> <<>>]
    /\ logged = <<>>
    /\ log_calls = 0

InitPure ==
    /\ candidates = <<>>
    /\ InitResolveIdle
    /\ InitCatalogIdle
    /\ InitVersionIdle

(* No app is processed: the configuration of the specifications that      *)
(* apply one function to its inputs.                                       *)
InitNoBatch ==
    /\ enabled = [i \in 1..Len(ConfigApps) |-> FALSE]
    /\ download_multiple = TRUE
    /\ max_retries = 1
    /\ fs = EmptyMap
    /\ report = [exists |-> FALSE, log |-> <<>>]
    /\ peer_pc = "off"
    /\ InitRun
    /\ InitLoggerIdle

(* One enabled app at most, every configuration. *)
Init ==
    /\ enabled \in { f \in EnabledFlags : Cardinality({ i \in DOMAIN f : f[i] }) <= 1 }
    /\ architectures \in ArchLists
    /\ download_multiple \in BOOLEAN
    /\ max_retries \in 0..MaxRetries
    /\ fs \in InitialFiles
    /\ report \in InitialReports
    /\ pc = "main"
    /\ peer_pc = "off"
    /\ InitRun
    /\ InitLoggerIdle
    /\ InitPure

(* A batch of up to MaxApps enabled apps, with and without retries. *)
InitBatch ==
    /\ enabled \in EnabledFlags
    /\ architectures = <<"arm64-v8a", "armeabi-v7a">>
    /\ download_multiple = TRUE
    /\ max_retries \in {0, 1}
    /\ fs = EmptyMap
    /\ report = [exists |-> FALSE, log |-> <<>>]
    /\ pc = "main"
    /\ peer_pc = "off"
    /\ InitRun
    /\ InitLoggerIdle
    /\ InitPure

(***************************************************************************)
(* main.                                                                   *)
(***************************************************************************)
RECURSIVE EnabledApps(_, _)
EnabledApps(flags, k) ==
    IF k > Len(ConfigApps) THEN <<>>
    ELSE (IF flags[k] THEN <<ConfigApps[k]>> ELSE <<>>) \o EnabledApps(flags, k + 1)

(* lines 1085-1093 with the first test on the failed list *)
ExitStatusOnFailed(n_successful, n_failed) ==
    IF n_failed > 0 THEN ExitAllFailed ELSE ExitSuccess

(* lines 1085-1093 *)
ExitStatus(n_successful, n_failed) ==
    IF n_successful = 0 THEN ExitAllFailed
    ELSE IF n_failed > 0 THEN ExitSuccess
    ELSE ExitSuccess

(* lines 1004-1033: load_config fails (return 1) or the loop is entered *)
MainStart ==
    /\ pc = "main"
    /\ \/ /\ exit_code' = ExitCritical
          /\ pc' = "exit"
          /\ UNCHANGED <<enabled_apps, app_i, results>>
       \/ /\ enabled_apps' = EnabledApps(enabled, 1)
          /\ app_i' = 1
          /\ results' = [successful |-> <<>>, failed |-> <<>>]
          /\ pc' = "main_loop"
          /\ UNCHANGED exit_code
    /\ UNCHANGED <<config_vars, logger_vars, rerun_vars, peer_vars, pure_vars, soup, exc, app_vars, dl_vars, fs, report, hist_vars>>

(* line 1038 and lines 764-881: download_app_apks is entered and chooses  *)
(* its version strategy                                                    *)
CallApp ==
    /\ pc = "main_loop"
    /\ app_i <= Len(enabled_apps)
    /\ LET app == CurrentApp
           info == PatchInfo(app)
           strategy == Strategy(info)
       IN  IF strategy = "specific"
           THEN /\ version_pages' = ConstructedPages(app, info.supported_versions, 1)
                /\ pc' = "page_loop"
                /\ UNCHANGED ret
           ELSE \E pages \in DiscoveredLists(app, IF strategy = "any"
                                                  THEN AnyVersionLimit
                                                  ELSE FallbackLimit) :
                   /\ earlier.ran => pages = earlier.version_pages
                   /\ version_pages' = pages
                   /\ IF pages = <<>>
                      THEN /\ ret' = [success |-> FALSE, paths |-> <<>>]
                           /\ pc' = "app_return"
                      ELSE /\ pc' = "page_loop"
                           /\ UNCHANGED ret
    /\ page_i' = 1
    /\ variants' = <<>>
    /\ variant_i' = 1
    /\ found_variants' = EmptyMap
    /\ downloaded_files' = <<>>
    /\ missing_log' = <<>>
    /\ calls' = Append(calls, CurrentApp.name)
    /\ resolved' = <<>>
    /\ no_link' = {}
    /\ report_at_start' = report
    /\ written' = {}
    /\ opened' = {}
    /\ soups' = <<>>
    /\ UNCHANGED <<config_vars, logger_vars, earlier, peer_vars, pure_vars, soup, main_vars, exc, dl_vars, fs, report>>

(* lines 1040-1052 *)
RecordResult ==
    /\ pc = "app_return"
    /\ results' = IF ret.success
                  THEN [results EXCEPT !.successful =
                           Append(@, [app |-> CurrentApp.name, paths |-> ret.paths,
                                      count |-> Len(ret.paths)])]
                  ELSE [results EXCEPT !.failed =
                           Append(@, [app |-> CurrentApp.name])]
    /\ app_i' = app_i + 1
    /\ pc' = "main_loop"
    /\ UNCHANGED <<config_vars, logger_vars, rerun_vars, peer_vars, pure_vars, soup, enabled_apps, exit_code, exc, app_vars, dl_vars,
                   fs, report, hist_vars>>

(* lines 1054-1093 *)
MainFinish ==
    /\ pc = "main_loop"
    /\ app_i > Len(enabled_apps)
    /\ exit_code' = ExitStatus(Len(results.successful), Len(results.failed))
    /\ pc' = "exit"
    /\ UNCHANGED <<config_vars, logger_vars, rerun_vars, peer_vars, pure_vars, soup, enabled_apps, app_i, results, exc, app_vars,
                   dl_vars, fs, report, hist_vars>>

(* lines 1095-1099: an exception that escaped download_app_apks *)
MainExcept ==
    /\ pc = "raise"
    /\ exit_code' = ExitCritical
    /\ pc' = "exit"
    /\ UNCHANGED <<config_vars, logger_vars, rerun_vars, peer_vars, pure_vars, soup, enabled_apps, app_i, results, exc, app_vars,
                   dl_vars, fs, report, hist_vars>>

(***************************************************************************)
(* download_app_apks: the loop over the version pages.                     *)
(***************************************************************************)
(* line 909 without the test *)
AlreadyFoundIgnored(arch, found) == FALSE

(* line 909 *)
AlreadyFound(arch, found) == arch \in DOMAIN found

(* lines 945-952 without the test of the found count at 946 *)
StopAfterPageUncounted(multiple, found, archs, recommended_version, version_str) ==
    \/ ~multiple
    \/ /\ recommended_version # ""
       /\ version_str = recommended_version
       /\ DOMAIN found # {}

(* lines 945-952 without `and found_variants` at 950 *)
StopAfterPageUnfound(multiple, found, archs, recommended_version, version_str) ==
    \/ ~multiple
    \/ Cardinality(DOMAIN found) >= Len(archs)
    \/ /\ recommended_version # ""
       /\ version_str = recommended_version

(* lines 945-952: whether the loop over the version pages is left after   *)
(* the page of version_str                                                 *)
StopAfterPage(multiple, found, archs, recommended_version, version_str) ==
    \/ ~multiple
    \/ Cardinality(DOMAIN found) >= Len(archs)
    \/ /\ recommended_version # ""
       /\ version_str = recommended_version
       /\ DOMAIN found # {}

(* lines 938-939 left out *)
UnlinkSkipped(files, path) == files

(* lines 938-939 *)
Unlink(files, path) == [p \in DOMAIN files \ {path} |-> files[p]]

(* lines 886-900: the next version page is fetched and parsed; a fetch    *)
(* error gives no variants.  A run that follows another one is served the  *)
(* pages the earlier run was served.                                       *)
FetchPage ==
    /\ pc = "page_loop"
    /\ page_i <= Len(version_pages)
    /\ \/ /\ soup' = NoPage
          /\ variants' = <<>>
       \/ \E page \in SitePages :
             /\ soup' = page
             /\ variants' = get_variants_from_version_page(
                                 page, version_pages[page_i].url, architectures)
    /\ (earlier.ran /\ page_i <= Len(earlier.soups)) => soup' = earlier.soups[page_i]
    /\ soups' = Append(soups, soup')
    /\ variant_i' = 1
    /\ pc' = "variant_loop"
    /\ UNCHANGED <<config_vars, logger_vars, earlier, peer_vars, pure_vars, main_vars, exc, version_pages, page_i,
                   found_variants, downloaded_files, missing_log, ret, dl_vars,
                   fs, report, hist_vars>>

(* line 886: no version page is left *)
PagesExhausted ==
    /\ pc = "page_loop"
    /\ page_i > Len(version_pages)
    /\ pc' = "report"
    /\ UNCHANGED <<config_vars, logger_vars, rerun_vars, peer_vars, pure_vars, soup, main_vars, exc, app_vars, dl_vars, fs, report,
                   hist_vars>>

(* line 914 never finding the file *)
ExistsNever(files, path) == FALSE

(* line 914: output_path.exists() *)
Exists(files, path) == path \in DOMAIN files

(* `break` where line 926 has `continue`: the rest of the page is skipped   *)
AfterNoLinkBreak(index, length) == length + 1

(* lines 924-926: `continue`, the loop takes the next variant of the page  *)
AfterNoLink(index, length) == index + 1

(* lines 905-929: one variant of the page, up to the call of              *)
(* download_single_apk                                                     *)
ConsiderVariant ==
    /\ pc = "variant_loop"
    /\ variant_i <= Len(variants)
    /\ LET arch == variants[variant_i].architecture
           path == OutputPath(CurrentApp, version_pages[page_i].version, arch)
       IN  IF AlreadyFound(arch, found_variants)
           THEN /\ variant_i' = variant_i + 1
                /\ UNCHANGED <<pc, found_variants, downloaded_files, dl_vars,
                               resolved, no_link>>
           ELSE IF Exists(fs, path)
           THEN /\ found_variants' = Put(found_variants, arch, path)
                /\ downloaded_files' = Append(downloaded_files, path)
                /\ variant_i' = variant_i + 1
                /\ UNCHANGED <<pc, dl_vars, resolved, no_link>>
           ELSE /\ resolved' = Append(resolved, arch)
                /\ \/ \* get_direct_download_link returns None
                      /\ variant_i' = AfterNoLink(variant_i, Len(variants))
                      /\ no_link' = no_link \cup {path}
                      /\ UNCHANGED <<pc, dl_vars>>
                   \/ \* it returns a link: download_single_apk is called
                      /\ output_path' = path
                      /\ attempt' = 0
                      /\ fail_first' \in 0..MaxRetries
                      /\ pc' = "download"
                      /\ UNCHANGED <<variant_i, dl_success, no_link, partial>>
                /\ UNCHANGED <<found_variants, downloaded_files>>
    /\ UNCHANGED <<config_vars, logger_vars, rerun_vars, peer_vars, pure_vars, soup, main_vars, exc, version_pages, page_i, variants,
                   missing_log, ret, fs, report, calls, report_at_start, written,
                   opened>>

(* lines 931-939 *)
AfterDownload ==
    /\ pc = "downloaded"
    /\ LET arch == variants[variant_i].architecture
       IN  IF dl_success
           THEN /\ found_variants' = Put(found_variants, arch, output_path)
                /\ downloaded_files' = Append(downloaded_files, output_path)
                /\ UNCHANGED fs
           ELSE /\ fs' = Unlink(fs, output_path)
                /\ UNCHANGED <<found_variants, downloaded_files>>
    /\ variant_i' = variant_i + 1
    /\ pc' = "variant_loop"
    /\ output_path' = ""
    /\ attempt' = 0
    /\ fail_first' = 0
    /\ partial' = FALSE
    /\ dl_success' = FALSE
    /\ UNCHANGED <<config_vars, logger_vars, rerun_vars, peer_vars, pure_vars, soup, main_vars, exc, version_pages, page_i, variants,
                   missing_log, ret, report, hist_vars>>

(* lines 942-952: the variants of the page are done *)
EndOfPage ==
    /\ pc = "variant_loop"
    /\ variant_i > Len(variants)
    /\ IF StopAfterPage(download_multiple, found_variants, architectures,
                        PatchInfo(CurrentApp).recommended_version,
                        version_pages[page_i].version)
       THEN pc' = "report" /\ UNCHANGED page_i
       ELSE pc' = "page_loop" /\ page_i' = page_i + 1
    /\ UNCHANGED <<config_vars, logger_vars, rerun_vars, peer_vars, pure_vars, soup, main_vars, exc, version_pages, variants,
                   variant_i, found_variants, downloaded_files, missing_log,
                   ret, dl_vars, fs, report, hist_vars>>

(***************************************************************************)
(* download_single_apk.                                                    *)
(***************************************************************************)
(* line 751 catching connection errors only *)
CaughtConnectionOnly(failure) == failure = "request"

(* line 751: the failures of an attempt the except clause catches          *)
(* (requests.RequestException): the request failing, and the stream        *)
(* failing while the body is written                                       *)
Caught(failure) == failure \in {"request", "stream"}

(* line 753 off by one *)
RetryAllowedShort(n, retries) == n < retries - 2

(* line 753 *)
RetryAllowed(n, retries) == n < retries - 1

(* line 726: for attempt in range(max_retries) has an iteration left *)
HasAttempt(n, retries) == n < retries

(* line 733 opening the file for appending: what it holds is kept *)
OpenAppending(files, path) == IF path \in DOMAIN files THEN files[path] ELSE <<>>

(* line 733: open(output_path, 'wb'), the content the file has once it is  *)
(* open: mode w creates the file or truncates it to nothing                *)
OpenWb(files, path) == <<>>

(* lines 751-758 or the exception leaving the function *)
AfterFailure(failure) ==
    IF Caught(failure)
    THEN /\ IF RetryAllowed(attempt, max_retries)
            THEN pc' = "download" /\ UNCHANGED dl_success
            ELSE pc' = "downloaded" /\ dl_success' = FALSE
         /\ UNCHANGED exc
    ELSE /\ pc' = "raise"
         /\ exc' = failure
         /\ UNCHANGED dl_success

(* lines 726-758: one iteration of the retry loop.  The transport fails   *)
(* the first fail_first attempts, either before the output file is opened *)
(* or after some of the body was written; opening the output file can     *)
(* fail too (OSError), whatever the transport does.                        *)
DownloadAttempt ==
    /\ pc = "download"
    /\ HasAttempt(attempt, max_retries)
    /\ attempt' = attempt + 1
    /\ \/ /\ attempt < fail_first
          /\ AfterFailure("request")
          /\ UNCHANGED <<fs, written, opened, partial>>
       \/ /\ attempt < fail_first
          /\ \E n \in 0..(Len(Body) - 1) :
                /\ fs' = Put(fs, output_path,
                             OpenWb(fs, output_path) \o SubSeq(Body, 1, n))
                /\ partial' = (partial \/ n > 0)
          /\ opened' = opened \cup {output_path}
          /\ AfterFailure("stream")
          /\ UNCHANGED written
       \/ /\ attempt >= fail_first
          /\ fs' = Put(fs, output_path, OpenWb(fs, output_path) \o Body)
          /\ written' = written \cup {output_path}
          /\ opened' = opened \cup {output_path}
          /\ dl_success' = TRUE
          /\ pc' = "downloaded"
          /\ UNCHANGED <<exc, partial>>
       \/ /\ AfterFailure("OSError")
          /\ UNCHANGED <<fs, written, opened, partial>>
    /\ UNCHANGED <<config_vars, logger_vars, rerun_vars, peer_vars, pure_vars, soup, main_vars, app_vars, output_path, fail_first,
                   report, calls, resolved, no_link, report_at_start>>

(* line 760: the loop ended without a return *)
NoAttemptLeft ==
    /\ pc = "download"
    /\ ~HasAttempt(attempt, max_retries)
    /\ dl_success' = FALSE
    /\ pc' = "downloaded"
    /\ UNCHANGED <<config_vars, logger_vars, rerun_vars, peer_vars, pure_vars, soup, main_vars, exc, app_vars, output_path, attempt,
                   fail_first, partial, fs, report, hist_vars>>

(***************************************************************************)
(* download_app_apks: the missing-architecture report and the return.      *)
(***************************************************************************)
(* lines 975-979 *)
LoadMissingLog(file) == IF file.exists THEN file.log ELSE <<>>

(* lines 981-984 *)
DumpMissingLog(log, info) == [exists |-> TRUE, log |-> Append(log, info)]

(* lines 955-979: the missing set; when it is not empty the report is read *)
ReportRead ==
    /\ pc = "report"
    /\ IF MissingArchitectures # {}
       THEN /\ missing_log' = LoadMissingLog(report)
            /\ pc' = "report_write"
       ELSE /\ pc' = "summary"
            /\ UNCHANGED missing_log
    /\ UNCHANGED <<config_vars, logger_vars, rerun_vars, peer_vars, pure_vars, soup, main_vars, exc, version_pages, page_i, variants,
                   variant_i, found_variants, downloaded_files, ret, dl_vars,
                   fs, report, hist_vars>>

(* lines 981-986 *)
ReportWrite ==
    /\ pc = "report_write"
    /\ report' = DumpMissingLog(missing_log, MissingInfo)
    /\ pc' = "summary"
    /\ UNCHANGED <<config_vars, logger_vars, rerun_vars, peer_vars, pure_vars, soup, main_vars, exc, app_vars, dl_vars, fs,
                   hist_vars>>

(* lines 988-995 *)
AppReturn ==
    /\ pc = "summary"
    /\ ret' = [success |-> Len(downloaded_files) > 0, paths |-> downloaded_files]
    /\ pc' = "app_return"
    /\ UNCHANGED <<config_vars, logger_vars, rerun_vars, peer_vars, pure_vars, soup, main_vars, exc, version_pages, page_i, variants,
                   variant_i, found_variants, downloaded_files, missing_log,
                   dl_vars, fs, report, hist_vars>>

Next ==
    \/ MainStart
    \/ CallApp
    \/ FetchPage
    \/ PagesExhausted
    \/ ConsiderVariant
    \/ DownloadAttempt
    \/ NoAttemptLeft
    \/ AfterDownload
    \/ EndOfPage
    \/ ReportRead
    \/ ReportWrite
    \/ AppReturn
    \/ RecordResult
    \/ MainFinish
    \/ MainExcept

Spec == Init /\ [][Next]_vars

(***************************************************************************)
(* main run a second time, right after a run that called download_app_apks *)
(* and returned: the files and the report are what the first run left, the *)
(* site is what the first run saw.                                         *)
(***************************************************************************)
Rerun ==
    /\ pc = "exit"
    /\ ~earlier.ran
    /\ exit_code = ExitSuccess
    /\ earlier' = [ran |-> TRUE,
                   version_pages |-> version_pages,
                   soups |-> soups,
                   found |-> found_variants,
                   resolves |-> Len(resolved),
                   downloads |-> Cardinality(written)]
    /\ pc' = "main"
    /\ enabled_apps' = <<>>
    /\ app_i' = 1
    /\ results' = [successful |-> <<>>, failed |-> <<>>]
    /\ exit_code' = NoExit
    /\ version_pages' = <<>>
    /\ page_i' = 1
    /\ variants' = <<>>
    /\ variant_i' = 1
    /\ found_variants' = EmptyMap
    /\ downloaded_files' = <<>>
    /\ missing_log' = <<>>
    /\ ret' = [success |-> FALSE, paths |-> <<>>]
    /\ calls' = <<>>
    /\ resolved' = <<>>
    /\ no_link' = {}
    /\ report_at_start' = report
    /\ written' = {}
    /\ opened' = {}
    /\ soups' = <<>>
    /\ soup' = NoPage
    /\ UNCHANGED <<config_vars, logger_vars, peer_vars, pure_vars, exc, dl_vars, fs, report>>

NextRerun ==
    \/ Next
    \/ Rerun

(* One enabled app at most, with retries, no report of earlier runs. *)
InitRerun ==
    /\ enabled \in { f \in EnabledFlags : Cardinality({ i \in DOMAIN f : f[i] }) <= 1 }
    /\ architectures \in { <<"arm64-v8a">>, <<"arm64-v8a", "armeabi-v7a">> }
    /\ download_multiple \in BOOLEAN
    /\ max_retries \in 0..MaxRetries
    /\ fs \in InitialFiles
    /\ report = [exists |-> FALSE, log |-> <<>>]
    /\ pc = "main"
    /\ peer_pc = "off"
    /\ InitRun
    /\ InitLoggerIdle
    /\ InitPure

SpecRerun == InitRerun /\ [][NextRerun]_vars

SpecBatch == InitBatch /\ [][Next]_vars

(***************************************************************************)
(* Two engine instances in parallel.  The second instance runs             *)
(* download_app_apks for another app and has reached its own report step   *)
(* with architectures missing; it executes the same lines 973-984 on the   *)
(* same report file.  Nothing in those lines takes a lock, so its read and *)
(* its write interleave freely with the first instance's steps.            *)
(***************************************************************************)
PeerApp ==
    [name |-> "Maps", package_name |-> "com.google.android.apps.maps",
     download_url |-> "https://www.apkmirror.com/apk/google-inc/maps/"]

PeerInfo ==
    [app |-> PeerApp.name,
     package_name |-> PeerApp.package_name,
     requested_architectures |-> Range(architectures),
     found_architectures |-> {},
     missing_architectures |-> Range(architectures),
     versions_checked |-> <<"11.0.0">>]

(* lines 975-979, second instance *)
PeerReportRead ==
    /\ peer_pc = "report"
    /\ peer_log' = LoadMissingLog(report)
    /\ peer_pc' = "report_write"
    /\ UNCHANGED <<config_vars, logger_vars, rerun_vars, pure_vars, main_vars, pc, exc, app_vars, dl_vars, fs, report,
                   hist_vars, soup>>

(* lines 981-984, second instance *)
PeerReportWrite ==
    /\ peer_pc = "report_write"
    /\ report' = DumpMissingLog(peer_log, PeerInfo)
    /\ peer_pc' = "done"
    /\ UNCHANGED <<config_vars, logger_vars, rerun_vars, pure_vars, main_vars, pc, exc, app_vars, dl_vars, fs,
                   hist_vars, soup, peer_log>>

InitParallel ==
    /\ enabled \in { f \in EnabledFlags : Cardinality({ i \in DOMAIN f : f[i] }) = 1 }
    /\ architectures = <<"arm64-v8a", "armeabi-v7a">>
    /\ download_multiple = TRUE
    /\ max_retries \in {0, 1}
    /\ fs = EmptyMap
    /\ report \in InitialReports
    /\ pc = "main"
    /\ peer_pc = "report"
    /\ InitRun
    /\ InitLoggerIdle
    /\ InitPure

NextParallel ==
    \/ Next
    \/ PeerReportRead
    \/ PeerReportWrite

SpecParallel == InitParallel /\ [][NextParallel]_vars

(***************************************************************************)
(* pipeline_logger.py: log_pipeline_run and log_pipeline_skip on the       *)
(* history file, called one after the other.  An entry is identified by    *)
(* its timestamp, the number of entries logged before it plus one.         *)
(***************************************************************************)
MaxLogged == 4

HistoryLimit == 50

(* lines 21-26: load_pipeline_history *)
load_pipeline_history(file) == IF file.exists THEN file.history ELSE <<>>

(* lines 81-82 keeping the head of the list *)
KeepFirst(history, limit) ==
    IF Len(history) > limit THEN SubSeq(history, 1, limit) ELSE history

(* lines 81-82 and 179-180: history[-50:] when the list got longer *)
KeepLast(history, limit) ==
    IF Len(history) > limit
    THEN SubSeq(history, Len(history) - limit + 1, Len(history))
    ELSE history

(* lines 77-86 and 175-184: load, append, cut, dump *)
LogEntry(pipeline_data) ==
    /\ pipeline_log' =
          [exists |-> TRUE,
           history |-> KeepLast(Append(load_pipeline_history(pipeline_log),
                                       pipeline_data),
                                HistoryLimit)]
    /\ logged' = Append(logged, pipeline_data)
    /\ log_calls' = log_calls + 1

RunStatuses == {"success", "partial", "failed"}

(* lines 35-89 *)
log_pipeline_run ==
    /\ pc = "logger"
    /\ log_calls < MaxLogged
    /\ \E status \in RunStatuses :
          LogEntry([timestamp |-> Len(logged) + 1, status |-> status])
    /\ UNCHANGED <<pc, config_vars, rerun_vars, peer_vars, pure_vars, main_vars, exc,
                   app_vars, dl_vars, fs, report, hist_vars, soup>>

(* lines 154-187 *)
log_pipeline_skip ==
    /\ pc = "logger"
    /\ log_calls < MaxLogged
    /\ LogEntry([timestamp |-> Len(logged) + 1, status |-> "skipped"])
    /\ UNCHANGED <<pc, config_vars, rerun_vars, peer_vars, pure_vars, main_vars, exc,
                   app_vars, dl_vars, fs, report, hist_vars, soup>>

(* The history file the logger left in earlier sessions: none, or one of   *)
(* up to HistoryLimit entries.                                             *)
EarlierEntries(n) == [k \in 1..n |-> [timestamp |-> k, status |-> "success"]]

InitialHistories ==
    { [exists |-> FALSE, history |-> <<>>] }
    \cup { [exists |-> TRUE, history |-> EarlierEntries(n)] :
             n \in {0} \cup ((HistoryLimit - 2)..HistoryLimit) }

InitLogger ==
    /\ pipeline_log \in InitialHistories
    /\ logged = pipeline_log.history
    /\ log_calls = 0
    /\ pc = "logger"
    /\ architectures = <<"arm64-v8a">>
    /\ enabled = [i \in 1..Len(ConfigApps) |-> FALSE]
    /\ download_multiple = TRUE
    /\ max_retries = 1
    /\ fs = EmptyMap
    /\ report = [exists |-> FALSE, log |-> <<>>]
    /\ peer_pc = "off"
    /\ InitRun
    /\ InitPure

NextLogger ==
    \/ log_pipeline_run
    \/ log_pipeline_skip

SpecLogger == InitLogger /\ [][NextLogger]_vars

(***************************************************************************)
(* _get_variants_from_version_page on its own, over a family of pages.     *)
(***************************************************************************)
MaxRows == 2

DiscoverRows == {RowBundle, RowApk64, RowApkV7, RowX64, RowPlain, RowNoarch}

RowLists == UNION { [1..n -> DiscoverRows] : n \in 0..MaxRows }

DiscoverPages == { PageOf(rows) : rows \in RowLists }

DiscoverArchLists ==
    ArchLists \cup { <<"x86">>, <<"universal">>, <<"x86_64", "armeabi-v7a">> }

DiscoverUrl == "https://www.apkmirror.com/apk/google-inc/youtube/youtube-20-14-43-release/"

InitDiscover ==
    /\ architectures \in DiscoverArchLists
    /\ pc = "discover"
    /\ InitNoBatch
    /\ InitPure

(* lines 210-349, applied to one page *)
Discover ==
    /\ pc = "discover"
    /\ \E page \in DiscoverPages :
          /\ soup' = page
          /\ candidates' = AllCandidates(page, DiscoverUrl, architectures)
          /\ variants' = get_variants_from_version_page(page, DiscoverUrl,
                                                        architectures)
    /\ pc' = "discovered"
    /\ UNCHANGED <<config_vars, logger_vars, rerun_vars, peer_vars, resolve_vars, catalog_vars,
                   version_vars, main_vars, exc, version_pages, page_i,
                   variant_i, found_variants, downloaded_files, missing_log,
                   ret, dl_vars, fs, report, hist_vars>>

NextDiscover == Discover

SpecDiscover == InitDiscover /\ [][NextDiscover]_vars

(***************************************************************************)
(* _filter_prefer_apk_downloads on its own, over lists of candidates.      *)
(***************************************************************************)
MaxCandidates == 3

Candidate(url, text, arch) ==
    [url |-> url, text |-> text, architecture |-> arch, context |-> ""]

CandBundle == Candidate("https://apkmirror.com/x/v1-android-apk-download/", "v1", "arm64-v8a")
CandApk2 == Candidate("https://apkmirror.com/x/v1-2-android-apk-download/", "v1", "arm64-v8a")
CandApk3 == Candidate("https://apkmirror.com/x/v1-3-android-apk-download/", "v1", "armeabi-v7a")
CandTextBundle == Candidate("https://example.org/get-1/", "App Bundle", "arm64-v8a")
CandTextApk == Candidate("https://example.org/get-2/", "Android Package", "arm64-v8a")
CandOther == Candidate("https://example.org/get-3/", "Download", "arm64-v8a")
CandOtherV7 == Candidate("https://example.org/get-4/", "Download", "armeabi-v7a")

FilterCandidates ==
    {CandBundle, CandApk2, CandApk3, CandTextBundle, CandTextApk, CandOther,
     CandOtherV7}

CandidateLists == UNION { [1..n -> FilterCandidates] : n \in 0..MaxCandidates }

InitFilter ==
    /\ architectures = <<"arm64-v8a", "armeabi-v7a">>
    /\ pc = "filter"
    /\ candidates \in CandidateLists
    /\ InitResolveIdle
    /\ InitCatalogIdle
    /\ InitVersionIdle
    /\ InitNoBatch

(* lines 351-434, applied to one list *)
Filter ==
    /\ pc = "filter"
    /\ variants' = filter_prefer_apk_downloads(candidates)
    /\ pc' = "filtered"
    /\ UNCHANGED <<config_vars, logger_vars, rerun_vars, peer_vars, pure_vars, main_vars, exc,
                   version_pages, page_i, variant_i, found_variants,
                   downloaded_files, missing_log, ret, dl_vars, fs, report,
                   hist_vars, soup>>

NextFilter == Filter

SpecFilter == InitFilter /\ [][NextFilter]_vars

(***************************************************************************)
(* get_direct_download_link applied to one variant page: the page has at   *)
(* most MaxAnchors <a> elements and one of FormLists; each of the two      *)
(* fetches has one of FetchOutcomes.                                       *)
(***************************************************************************)
MaxAnchors == 2

Anchor(class, string, has_href, href) ==
    [class |-> class, string |-> string, has_href |-> has_href, href |-> href]

BtnDownload == Anchor("btn downloadButton", "Download APK", TRUE, "/apk/x/v1/download/?key=1")
BtnFragment == Anchor("downloadButton", "Download", TRUE, "#safeDownload")
BtnNoHref == Anchor("downloadButton", "Download", FALSE, "")
LinkText == Anchor("", "Download APK now", TRUE, "#")
LinkPrimary == Anchor("btn btn-primary", "Get it", TRUE, "/get/")
LinkHref == Anchor("", "here", TRUE, "/files/download/app.apk")

ResolveAnchors == {BtnDownload, BtnFragment, BtnNoHref, LinkText, LinkPrimary, LinkHref}

FormAction == [has_action |-> TRUE, action |-> "/wp-content/themes/APKMirror/download.php"]
FormNoAction == [has_action |-> FALSE, action |-> ""]

FormLists == {<<>>, <<FormAction>>, <<FormNoAction>>, <<FormNoAction, FormAction>>}

ResolvePages ==
    { [anchors |-> a, forms |-> f] :
        a \in UNION { [1..n -> ResolveAnchors] : n \in 0..MaxAnchors },
        f \in FormLists }

Response(content_type, final_url, hrefs, has_meta, meta) ==
    [content_type |-> content_type, content_disposition |-> "", url |-> final_url,
     hrefs |-> hrefs, has_meta |-> has_meta, meta |-> meta]

RespApk == Response("application/vnd.android.package-archive",
                    "https://dl.apkmirror.com/app.apk", <<>>, FALSE, "")
RespScript == Response("text/html", "https://www.apkmirror.com/apk/x/v1/download/",
                       <<"/about/", "/wp-content/themes/APKMirror/download.php?id=1">>,
                       FALSE, "")
RespRefresh == Response("text/html", "https://www.apkmirror.com/apk/x/v1/download/",
                        <<"/about/">>, TRUE, "0; url=/final/app.apk")
RespRefreshUpper == Response("text/html", "https://www.apkmirror.com/apk/x/v1/download/",
                             <<>>, TRUE, "0; URL=/final/app.apk")
RespNothing == Response("text/html", "https://www.apkmirror.com/apk/x/v1/download/",
                        <<"/about/">>, FALSE, "")

Responses == {RespApk, RespScript, RespRefresh, RespRefreshUpper, RespNothing}

ResolveUrl == "https://www.apkmirror.com/apk/x/v1/"

InitResolve ==
    /\ architectures = <<"arm64-v8a">>
    /\ pc = "resolve"
    /\ resolve_in \in [page : ResolvePages, fetch : FetchOutcomes,
                       next_fetch : FetchOutcomes, next_response : Responses]
    /\ resolve_out = [raised |-> "", next_hop |-> NoLink, link |-> NoLink,
                      fetched |-> <<>>]
    /\ candidates = <<>>
    /\ InitCatalogIdle
    /\ InitVersionIdle
    /\ InitNoBatch

(* lines 548-700, applied to one variant page *)
Resolve ==
    /\ pc = "resolve"
    /\ resolve_out' = get_direct_download_link(ResolveUrl, resolve_in)
    /\ pc' = "resolved"
    /\ UNCHANGED <<config_vars, logger_vars, rerun_vars, peer_vars, candidates, resolve_in, catalog_vars,
                   version_vars, main_vars, exc, app_vars, dl_vars, fs, report,
                   hist_vars, soup>>

NextResolve == Resolve

SpecResolve == InitResolve /\ [][NextResolve]_vars

(***************************************************************************)
(* _extract_version_from_url applied to one string: a prefix, up to        *)
(* MaxTokens number tokens and a suffix, or one of the two release URLs of *)
(* the catalog.                                                            *)
(***************************************************************************)
MaxTokens == 4

VersionPrefixes == {"/apk/google-inc/photos/google-photos",
                    "/apk/google-inc/photos/photos",
                    "/apk/google-inc/youtube/youtube", "app"}

VersionTokens == {"-7", "-50", ".0", "-818774663"}

VersionSuffixes == {"-release/", "-release.0/", "-android-apk-download/", "/"}

RECURSIVE Concat(_)
Concat(seq) == IF seq = <<>> THEN "" ELSE seq[1] \o Concat(Tail(seq))

PhotosReleaseUrl ==
    "https://www.apkmirror.com/apk/google-inc/photos/google-photos-7-50-0-818774663-release/"

YouTubeReleaseUrl ==
    "https://www.apkmirror.com/apk/google-inc/youtube/youtube-20-14-43-release/"

ExtractUrls ==
    { prefix \o Concat(tokens) \o suffix :
        prefix \in VersionPrefixes,
        tokens \in UNION { [1..n -> VersionTokens] : n \in 0..MaxTokens },
        suffix \in VersionSuffixes }
    \cup {PhotosReleaseUrl, YouTubeReleaseUrl}

InitVersion ==
    /\ architectures = <<"arm64-v8a">>
    /\ pc = "extract"
    /\ extract_url \in ExtractUrls
    /\ extract_version = ""
    /\ candidates = <<>>
    /\ InitResolveIdle
    /\ InitCatalogIdle
    /\ InitNoBatch

(* lines 162-206, applied to one string *)
ExtractVersion ==
    /\ pc = "extract"
    /\ extract_version' = extract_version_from_url(extract_url)
    /\ pc' = "extracted"
    /\ UNCHANGED <<config_vars, logger_vars, rerun_vars, peer_vars, candidates, resolve_vars, catalog_vars,
                   extract_url, main_vars, exc, app_vars, dl_vars, fs, report,
                   hist_vars, soup>>

NextVersion == ExtractVersion

SpecVersion == InitVersion /\ [][NextVersion]_vars

(***************************************************************************)
(* get_all_version_pages applied to one catalog page: up to MaxLinks       *)
(* collected links, a limit of up to MaxLimit, the catalog root of one of  *)
(* the configured apps.                                                    *)
(***************************************************************************)
MaxLinks == 3
MaxLimit == 2

CatalogHrefs == {"/apk/x/app/app-7-50-release/",
                 "/apk/x/app/app-7-50-0-release/",
                 "/apk/x/app/app-7-50-release/#downloads",
                 "/apk/x/app/app-20-14-43-release/",
                 "/apk/x/app/app-150-0-release/",
                 "/apk/x/app/"}

InitCatalog ==
    /\ architectures = <<"arm64-v8a">>
    /\ pc = "catalog"
    /\ app_url \in { ConfigApps[i].download_url : i \in 1..Len(ConfigApps) }
    /\ version_links \in UNION { [1..n -> CatalogHrefs] : n \in 0..MaxLinks }
    /\ catalog_limit \in 1..MaxLimit
    /\ candidates = <<>>
    /\ InitResolveIdle
    /\ InitVersionIdle
    /\ InitNoBatch

(* lines 105-156, applied to one list of collected links *)
Catalog ==
    /\ pc = "catalog"
    /\ version_pages' = get_all_version_pages(app_url, version_links, catalog_limit)
    /\ pc' = "catalogued"
    /\ UNCHANGED <<config_vars, logger_vars, rerun_vars, peer_vars, pure_vars, main_vars, exc, page_i,
                   variants, variant_i, found_variants, downloaded_files,
                   missing_log, ret, dl_vars, fs, report, hist_vars, soup>>

NextCatalog == Catalog

SpecCatalog == InitCatalog /\ [][NextCatalog]_vars

(***************************************************************************)
(* Properties.                                                             *)
(***************************************************************************)
(* C1: whenever a run of download_app_apks is at its final report step     *)
(* (lines 954-986), whatever pages, resolutions and downloads came before, *)
(* the found architectures and the computed missing architectures          *)
(* partition the requested ones: their union is the requested set and they *)
(* are disjoint.                                                           *)
C1_FoundMissingPartition ==
    pc \in {"report", "report_write", "summary"} =>
        /\ MissingInfo.found_architectures \cup MissingInfo.missing_architectures
              = MissingInfo.requested_architectures
        /\ MissingInfo.found_architectures \cap MissingInfo.missing_architectures
              = {}

(* a run that writes its report with something found and something missing *)
C1_Witness ==
    /\ pc = "report_write"
    /\ MissingInfo.found_architectures # {}
    /\ MissingInfo.missing_architectures # {}
    /\ resolved # <<>>

(* C2: within one run of download_app_apks found_variants only grows: a    *)
(* retained architecture stays retained with the same path, no later       *)
(* variant of that architecture is resolved or downloaded, and there is    *)
(* one retained artifact per architecture.                                 *)
C2_RetainedOnce ==
    /\ [](/\ Len(downloaded_files) = Cardinality(DOMAIN found_variants)
          /\ Range(downloaded_files)
                = { found_variants[a] : a \in DOMAIN found_variants })
    /\ [][calls' = calls =>
            /\ \A a \in DOMAIN found_variants :
                  /\ a \in DOMAIN found_variants'
                  /\ found_variants'[a] = found_variants[a]
            /\ resolved' # resolved =>
                  resolved'[Len(resolved')] \notin DOMAIN found_variants
            /\ (pc # "download" /\ pc' = "download") =>
                  variants[variant_i].architecture \notin DOMAIN found_variants]_vars

(* a later version page offers an architecture retained from an earlier    *)
(* page, and the earlier artifact is kept                                   *)
C2_Witness ==
    /\ pc = "variant_loop"
    /\ page_i > 1
    /\ variant_i > 1
    /\ variant_i - 1 <= Len(variants)
    /\ LET arch == variants[variant_i - 1].architecture
       IN  /\ arch \in DOMAIN found_variants
           /\ found_variants[arch]
                 # OutputPath(CurrentApp, version_pages[page_i].version, arch)
           /\ found_variants[arch]
                 = OutputPath(CurrentApp, version_pages[1].version, arch)

(* C3: with two engine instances appending to the missing-architecture     *)
(* report in parallel, no update is lost: once both have written, the      *)
(* report holds the records of both, and every record it held when this    *)
(* instance's run started.                                                 *)
C3_NoLostUpdate ==
    (/\ pc = "summary"
     /\ MissingArchitectures # {}
     /\ peer_pc = "done") =>
        /\ MissingInfo \in Range(report.log)
        /\ PeerInfo \in Range(report.log)
        /\ \A r \in Range(LoadMissingLog(report_at_start)) : r \in Range(report.log)

(* C4: download_single_apk with max_retries = N and a transport failing    *)
(* its first k attempts returns after exactly min(k + 1, N) attempts, with *)
(* success exactly when k < N; while it is still attempting, no attempt    *)
(* has succeeded.                                                          *)
C4_AttemptCount ==
    /\ pc = "downloaded" =>
          /\ attempt = (IF fail_first + 1 < max_retries
                        THEN fail_first + 1 ELSE max_retries)
          /\ dl_success <=> fail_first < max_retries
    /\ pc = "download" => ~dl_success /\ attempt <= fail_first

(* the transport failed once and the second attempt succeeded *)
C4_Witness ==
    /\ pc = "downloaded"
    /\ max_retries = MaxRetries
    /\ fail_first = 1
    /\ attempt = 2
    /\ dl_success

(* C5: with download_multiple_architectures false the run retains at most  *)
(* one architecture, and it leaves the loop over the version pages only    *)
(* with one retained or with no page left.                                 *)
C5_StopsAfterFirstRetained ==
    (~download_multiple /\ pc \in {"report", "report_write", "summary"}) =>
        /\ Cardinality(DOMAIN found_variants) <= 1
        /\ DOMAIN found_variants = {} => page_i > Len(version_pages)

(* C6: every run of download_app_apks that returns with requested          *)
(* architectures missing has appended exactly one record for its app to    *)
(* the missing-architecture report, also the run that found no version     *)
(* page.                                                                   *)
C6_MissingAlwaysReported ==
    (pc = "app_return" /\ Range(architectures) \ DOMAIN found_variants # {}) =>
        /\ report.exists
        /\ Len(report.log) = Len(LoadMissingLog(report_at_start)) + 1
        /\ report.log[Len(report.log)].app = CurrentApp.name
        /\ report.log[Len(report.log)].missing_architectures
             = Range(architectures) \ DOMAIN found_variants

(* C7: the exit status of main tells a completed batch with no successful  *)
(* app (ExitAllFailed) from one with at least one successful app           *)
(* (ExitSuccess); a batch where every app succeeded and a batch where some *)
(* succeeded and some failed return the same status.  ExitCritical is      *)
(* returned only when the batch was not completed.                         *)
C7_ExitStatusTwoOutcomes ==
    (pc = "exit" /\ exit_code # ExitCritical) =>
        /\ Len(results.successful) + Len(results.failed) = Len(enabled_apps)
        /\ exit_code = ExitSuccess <=> Len(results.successful) > 0
        /\ exit_code = ExitAllFailed <=> Len(results.successful) = 0

(* a batch with one successful and one failed app exits with ExitSuccess *)
C7_Witness ==
    /\ pc = "exit"
    /\ Len(results.successful) = 1
    /\ Len(results.failed) = 1
    /\ exit_code = ExitSuccess

(* C7 as stated: a partial success exits with a status that is neither the *)
(* status of a batch where every app succeeded nor the status of a batch   *)
(* where none did.                                                         *)
C7_ThreeDistinctStatuses ==
    (/\ pc = "exit"
     /\ exit_code # ExitCritical
     /\ Len(results.successful) > 0
     /\ Len(results.failed) > 0) =>
        /\ exit_code # ExitStatus(Len(enabled_apps), 0)
        /\ exit_code # ExitStatus(0, Len(enabled_apps))

C9_NoPartialFileKept ==
    pc \in {"page_loop", "variant_loop", "report", "report_write", "summary",
            "app_return"} =>
        /\ \A p \in DOMAIN fs : fs[p] = OldBody \/ (fs[p] = Body /\ p \in written)
        /\ \A p \in opened \ written : p \notin DOMAIN fs
        /\ \A i \in 1..Len(downloaded_files) : downloaded_files[i] \in DOMAIN fs
        /\ written \subseteq Range(downloaded_files)
        /\ Range(downloaded_files)
             = { found_variants[a] : a \in DOMAIN found_variants }

(* a download failed after its file was opened, the file is gone, and the  *)
(* run returns another path                                                *)
C9_Witness ==
    /\ pc = "app_return"
    /\ opened \ written # {}
    /\ \A p \in opened \ written : p \notin DOMAIN fs
    /\ ret.success
    /\ Range(ret.paths) \cap (opened \ written) = {}

(* C10: every variant _get_variants_from_version_page returns is tagged    *)
(* with a requested architecture, and when universal is not requested a    *)
(* download link with no architecture keyword in its text, href or context *)
(* is not among the variants.                                              *)
C10_TagsAreRequested ==
    pc = "discovered" =>
        /\ \A i \in 1..Len(variants) :
              variants[i].architecture \in Range(architectures)
        /\ "universal" \notin Range(architectures) =>
              \A k \in 1..Len(soup.links) :
                  LET link == soup.links[k]
                      full_text == Lower(link.text \o " " \o link.href \o " "
                                         \o LinkContext(link))
                      signal == \E arch \in {"armeabi-v7a", "arm64-v8a", "x86",
                                             "x86_64", "universal"} :
                                    \/ ArchMatches(arch, full_text)
                                    \/ AnyIn(arch_keywords(arch), full_text)
                  IN  ~signal => ~HasUrl(variants, urljoin(DiscoverUrl, link.href))

(* a page with a link without a signal and a link with one, universal not  *)
(* requested: only the second is returned                                  *)
C10_Witness ==
    /\ pc = "discovered"
    /\ "universal" \notin Range(architectures)
    /\ Len(soup.links) = 2
    /\ soup.links[1].href = RowPlain.href
    /\ Len(variants) = 1
    /\ variants[1].url = urljoin(DiscoverUrl, soup.links[2].href)

C12_OnePerArchitecture ==
    pc = "filtered" =>
        /\ \A i \in 1..Len(variants) : variants[i] \in Range(candidates)
        /\ \A i, j \in 1..Len(variants) :
              variants[i].architecture = variants[j].architecture => i = j

(* three candidates of one architecture and one of another: two returned *)
C12_Witness ==
    /\ pc = "filtered"
    /\ Len(candidates) = MaxCandidates
    /\ Cardinality({ k \in 1..Len(candidates) :
                       candidates[k].architecture = "arm64-v8a" }) >= 2
    /\ Cardinality({ candidates[k].architecture : k \in 1..Len(candidates) }) = 2
    /\ Len(variants) = 2

(* C13: for an architecture with two or more candidates the filter retains *)
(* the first candidate, in input order, of the best class present, the     *)
(* classes ordered monolithic APK, bundle, unclassified; a URL with a      *)
(* numbered variant suffix is a monolithic APK and a bare                  *)
(* -android-apk-download suffix a bundle, so of these two the numbered one *)
(* is retained in either input order.                                      *)
C13_FirstOfBestClass ==
    pc = "filtered" =>
        /\ \A arch \in { candidates[k].architecture : k \in 1..Len(candidates) } :
              LET group == { k \in 1..Len(candidates) :
                               candidates[k].architecture = arch }
                  of_class(c) == { k \in group : PackagingClass(candidates[k]) = c }
                  best == IF of_class("apk") # {} THEN of_class("apk")
                          ELSE IF of_class("bundle") # {} THEN of_class("bundle")
                          ELSE of_class("other")
                  first == CHOOSE k \in best : \A j \in best : k <= j
              IN  Cardinality(group) >= 2 =>
                    \E i \in 1..Len(variants) :
                        /\ variants[i] = candidates[first]
                        /\ \A j \in 1..Len(variants) :
                              variants[j].architecture = arch => j = i
        /\ PackagingClass(CandApk2) = "apk"
        /\ PackagingClass(CandBundle) = "bundle"
        /\ PackagingClass(CandOther) = "other"
        /\ (Range(candidates) = {CandApk2, CandBundle}) => variants = <<CandApk2>>

(* the bundle comes first in the input and the numbered APK is retained *)
C13_Witness ==
    /\ pc = "filtered"
    /\ candidates = <<CandBundle, CandApk2>>
    /\ variants = <<CandApk2>>

(***************************************************************************)
(* C14: get_direct_download_link never propagates an exception: when the   *)
(* fetch of the intermediate page fails, or the fetch of the next hop      *)
(* fails (timeout, connection error, HTTP error status), it returns none.  *)
(***************************************************************************)
C14_FetchFailureIsNone ==
    pc = "resolved" =>
        /\ resolve_out.raised = ""
        /\ resolve_in.fetch # "ok" => resolve_out.link = NoLink
        /\ (resolve_out.next_hop # NoLink /\ resolve_in.next_fetch # "ok")
              => resolve_out.link = NoLink

(* the intermediate page was fetched and gave a next hop, whose fetch      *)
(* answered with an HTTP error status                                      *)
C14_Witness ==
    /\ pc = "resolved"
    /\ resolve_in.fetch = "ok"
    /\ resolve_out.next_hop # NoLink
    /\ resolve_in.next_fetch = "http_error"
    /\ resolve_out.raised = ""
    /\ resolve_out.link = NoLink

(***************************************************************************)
(* C15: when the download button has a fragment-only href and the page has *)
(* a form with an action attribute, the next hop is that form's action     *)
(* resolved against the variant page URL.                                  *)
(***************************************************************************)
C15_FormActionIsNextHop ==
    (/\ pc = "resolved"
     /\ resolve_in.fetch = "ok"
     /\ DownloadButton(resolve_in.page) # 0
     /\ resolve_in.page.anchors[DownloadButton(resolve_in.page)].has_href
     /\ StartsWith(resolve_in.page.anchors[DownloadButton(resolve_in.page)].href, "#")
     /\ \E k \in 1..Len(resolve_in.page.forms) : resolve_in.page.forms[k].has_action)
    => \E k \in 1..Len(resolve_in.page.forms) :
          /\ resolve_in.page.forms[k].has_action
          /\ resolve_out.next_hop = urljoin(ResolveUrl, resolve_in.page.forms[k].action)

(***************************************************************************)
(* C16: when get_direct_download_link returns none for a variant,          *)
(* download_app_apks downloads nothing for it, does not mark its           *)
(* architecture as found and goes on with the next variant of the page,    *)
(* in the same run and on the same list of version pages; the same         *)
(* architecture can still be retained from a later version page (the       *)
(* witness).                                                               *)
(***************************************************************************)
C16_NoLinkIsSkipped ==
    [][(pc = "variant_loop" /\ no_link' # no_link) =>
          /\ pc' = "variant_loop"
          /\ variant_i' = variant_i + 1
          /\ found_variants' = found_variants
          /\ downloaded_files' = downloaded_files
          /\ fs' = fs
          /\ opened' = opened
          /\ written' = written
          /\ <<version_pages', page_i', variants'>> = <<version_pages, page_i, variants>>
          /\ <<ret', exc', calls'>> = <<ret, exc, calls>>]_vars

(* an architecture whose variant of the first version page resolved to     *)
(* none is retained from the second version page, by a download            *)
C16_Witness ==
    /\ pc = "report"
    /\ Len(version_pages) >= 2
    /\ \E arch \in DOMAIN found_variants :
          /\ OutputPath(CurrentApp, version_pages[1].version, arch) \in no_link
          /\ found_variants[arch]
                = OutputPath(CurrentApp, version_pages[2].version, arch)
          /\ found_variants[arch] \in written

(***************************************************************************)
(* C17: for every input string _extract_version_from_url returns a         *)
(* dot-separated sequence of non-negative integers (the fallback "0.0.0"   *)
(* is one): never an empty segment, a character that is no digit or a      *)
(* leftover release marker.                                                *)
(***************************************************************************)
WellFormedVersion(v) ==
    /\ Len(v) > 0
    /\ \A i \in 1..Len(v) : IsDigit(SubSeq(v, i, i)) \/ SubSeq(v, i, i) = "."
    /\ IsDigit(SubSeq(v, 1, 1))
    /\ IsDigit(SubSeq(v, Len(v), Len(v)))
    /\ ~Contains(v, "..")

C17_VersionWellFormed ==
    pc = "extracted" =>
        /\ WellFormedVersion(extract_version)
        /\ (\A i \in 1..Len(extract_url) : ~IsDigit(SubSeq(extract_url, i, i)))
              => extract_version = FallbackVersion

(* a dotted version with a release marker and a ".0" behind it: the marker *)
(* and what follows it are cut                                             *)
C17_Witness ==
    /\ pc = "extracted"
    /\ extract_url = "/apk/google-inc/youtube/youtube-7.0-release.0/"
    /\ extract_version = "7.0"

(***************************************************************************)
(* C18: the handlers of _extract_version_from_url are tried in a fixed     *)
(* order and the first that matches decides; the numbered-build handler of *)
(* the Photos family comes before the generic dashed handler, so           *)
(* .../google-photos-7-50-0-818774663-release/ gives "7.50.0" and          *)
(* .../youtube/youtube-20-14-43-release/ gives "20.14.43".                 *)
(***************************************************************************)
C18_FirstHandlerDecides ==
    pc = "extracted" =>
        /\ extract_url = PhotosReleaseUrl => extract_version = "7.50.0"
        /\ extract_url = YouTubeReleaseUrl => extract_version = "20.14.43"
        /\ PhotosRelease(extract_url).found =>
              /\ extract_version = PhotosRelease(extract_url).text
              /\ Cardinality(Positions(extract_version, ".")) = 2
        /\ (~PhotosRelease(extract_url).found /\ StandardRelease(extract_url).found)
              => extract_version = StandardRelease(extract_url).text
        /\ (/\ ~PhotosRelease(extract_url).found
            /\ ~StandardRelease(extract_url).found
            /\ SegmentDotted(extract_url).found)
              => extract_version = SegmentDotted(extract_url).text
        /\ (/\ ~PhotosRelease(extract_url).found
            /\ ~StandardRelease(extract_url).found
            /\ ~SegmentDotted(extract_url).found
            /\ DirectDotted(extract_url).found)
              => extract_version = DirectDotted(extract_url).text

(* the Photos release URL: the generic handler matches it too and would    *)
(* keep the build number                                                   *)
C18_Witness ==
    /\ pc = "extracted"
    /\ extract_url = PhotosReleaseUrl
    /\ StandardRelease(extract_url).text = "7.50.0.818774663"
    /\ extract_version = "7.50.0"

(***************************************************************************)
(* C19: the version comparisons of the engine are not affected by a        *)
(* trailing ".0" padding segment: the deduplication by version of          *)
(* get_all_version_pages treats versions that differ only by trailing ".0" *)
(* segments, such as 7.50.0 and 7.50, as equal, so its result never holds  *)
(* two of them.                                                            *)
(***************************************************************************)
RECURSIVE Unpadded(_)
Unpadded(v) ==
    IF EndsWith(v, ".0") THEN Unpadded(SubSeq(v, 1, Len(v) - 2)) ELSE v

C19_PaddingIgnored ==
    pc = "catalogued" =>
        \A i, j \in 1..Len(version_pages) :
            Unpadded(version_pages[i].version) = Unpadded(version_pages[j].version)
                => i = j

(***************************************************************************)
(* C20: get_all_version_pages returns the collected links deduplicated by  *)
(* href, without the links of version "0.0.0" or of a version outside the  *)
(* sanity bounds, deduplicated by version (first occurrence wins) and only *)
(* then cut to the limit: it has exactly `limit` entries whenever the      *)
(* collected links hold at least `limit` distinct valid versions.          *)
(***************************************************************************)
C20_FilterThenTruncate ==
    pc = "catalogued" =>
        LET valid == DedupeVersions(
                         VersionPagesOf(app_url, DedupeHrefs(version_links, 1, <<>>),
                                        1, <<>>),
                         1, <<>>)
        IN  /\ version_pages = Head_n(valid, catalog_limit)
            /\ Len(valid) >= catalog_limit => Len(version_pages) = catalog_limit

(***************************************************************************)
(* C21: no two downloads write the same output file: within one run of     *)
(* download_app_apks a call of download_single_apk never gets a path that  *)
(* an earlier call of the run opened, and every path a run opens lies in   *)
(* the directory of its own package and in no other package's directory.   *)
(***************************************************************************)
C21_NoSharedOutputFile ==
    /\ [][(pc # "download" /\ pc' = "download") => output_path' \notin opened]_vars
    /\ [](pc \in {"page_loop", "variant_loop", "download", "downloaded", "report",
                  "report_write", "summary", "app_return"} =>
            \A p \in opened :
                /\ StartsWith(p, AppDir(CurrentApp))
                /\ \A k \in 1..Len(ConfigApps) :
                      ConfigApps[k].package_name # CurrentApp.package_name
                          => ~StartsWith(p, AppDir(ConfigApps[k])))

(* the second app of a batch, two files opened by its run *)
C21_Witness ==
    /\ pc = "summary"
    /\ app_i = 2
    /\ Cardinality(opened) >= 2

(***************************************************************************)
(* C22: with download_multiple_architectures true, once the found set      *)
(* covers every requested architecture and the version page is done,       *)
(* download_app_apks takes no further version page: no page fetch, no      *)
(* resolve and no download follow in the run.                              *)
(***************************************************************************)
Covered == Range(architectures) \subseteq DOMAIN found_variants

C22_StopsWhenCovered ==
    /\ [][(download_multiple /\ Covered /\ calls' = calls) =>
             /\ ~(pc = "page_loop" /\ pc' = "variant_loop")
             /\ resolved' = resolved
             /\ ~(pc # "download" /\ pc' = "download")
             /\ page_i' = page_i]_vars
    /\ []((download_multiple /\ Covered) => pc # "page_loop")

(* the run left the loop over the version pages with every requested       *)
(* architecture found, a version page left, and not on the recommended     *)
(* version                                                                 *)
C22_Witness ==
    /\ pc = "report"
    /\ download_multiple
    /\ Len(architectures) >= 2
    /\ Covered
    /\ page_i < Len(version_pages)
    /\ version_pages[page_i].version # PatchInfo(CurrentApp).recommended_version

(***************************************************************************)
(* C23: with download_multiple_architectures true, when the version page   *)
(* just processed is the one of the recommended version, download_app_apks *)
(* leaves the loop over the version pages if at least one architecture has *)
(* been found and goes on to the next version page if none has; once the   *)
(* loop is left no version page is processed in the run.                   *)
(***************************************************************************)
C23_StopsOnRecommended ==
    /\ [][(/\ download_multiple
           /\ pc = "variant_loop"
           /\ pc' \in {"report", "page_loop"}
           /\ version_pages[page_i].version
                 = PatchInfo(CurrentApp).recommended_version) =>
             IF DOMAIN found_variants # {}
             THEN pc' = "report" /\ page_i' = page_i
             ELSE pc' = "page_loop" /\ page_i' = page_i + 1]_vars
    /\ [][(pc \in {"report", "report_write", "summary", "app_return"}) =>
             pc' \notin {"page_loop", "variant_loop", "download"}]_vars

(* the page of the recommended version gave one of two requested           *)
(* architectures and the run stopped there with a version page left        *)
C23_Witness ==
    /\ pc = "report"
    /\ download_multiple
    /\ page_i < Len(version_pages)
    /\ version_pages[page_i].version = PatchInfo(CurrentApp).recommended_version
    /\ DOMAIN found_variants # {}
    /\ ~Covered

(***************************************************************************)
(* C24: every attempt of download_single_apk that opens the output path    *)
(* truncates it, so what a failed earlier attempt wrote is overwritten and *)
(* not appended to: when the call returns success the file holds exactly   *)
(* the body of the successful response.                                    *)
(***************************************************************************)
C24_SuccessfulFileIsBody ==
    (pc = "downloaded" /\ dl_success) =>
        output_path \in DOMAIN fs /\ fs[output_path] = Body

(* a failed attempt left a chunk in the file, a later attempt succeeded *)
C24_Witness ==
    /\ pc = "downloaded"
    /\ dl_success
    /\ partial
    /\ attempt >= 2
    /\ fs[output_path] = Body

(***************************************************************************)
(* C25: when the download button has a fragment-only href and no form of   *)
(* the page carries an action (no form at all, or forms without an action  *)
(* attribute), the next hop is the first other link of the page whose href *)
(* holds "download" or ".apk", resolved against the variant page URL, and  *)
(* the function returns none without a second fetch when there is no such  *)
(* link.                                                                   *)
(***************************************************************************)
C25_OtherLinkFallback ==
    (/\ pc = "resolved"
     /\ resolve_in.fetch = "ok"
     /\ DownloadButton(resolve_in.page) # 0
     /\ resolve_in.page.anchors[DownloadButton(resolve_in.page)].has_href
     /\ StartsWith(resolve_in.page.anchors[DownloadButton(resolve_in.page)].href, "#")
     /\ \A k \in 1..Len(resolve_in.page.forms) : ~resolve_in.page.forms[k].has_action)
    => IF OtherLink(resolve_in.page) # 0
       THEN resolve_out.next_hop =
               urljoin(ResolveUrl, resolve_in.page.anchors[OtherLink(resolve_in.page)].href)
       ELSE resolve_out.next_hop = NoLink /\ resolve_out.link = NoLink

(***************************************************************************)
(* C26: after the next hop was fetched, the result is the final URL of the *)
(* response when its content type, its content disposition or that URL     *)
(* shows a package; otherwise the first match in the body, in the order    *)
(* apk-shaped link, download-script-shaped link, target of a meta refresh, *)
(* each resolved against the next-hop URL; none when nothing matches.      *)
(***************************************************************************)
RefreshTarget(content) ==
    Strip(SubSeq(content, Find(Lower(content), "url=") + 4, Len(content)))

C26_FinalResponseOrder ==
    (/\ pc = "resolved"
     /\ resolve_in.fetch = "ok"
     /\ resolve_out.next_hop # NoLink
     /\ resolve_in.next_fetch = "ok")
    => LET response == resolve_in.next_response
           download_url == resolve_out.next_hop
       IN  resolve_out.link =
              IF IsApkResponse(response) THEN response.url
              ELSE IF FinalLink(download_url, response.hrefs) # NoLink
              THEN FinalLink(download_url, response.hrefs)
              ELSE IF response.has_meta /\ Find(Lower(response.meta), "url=") # 0
              THEN urljoin(download_url, RefreshTarget(response.meta))
              ELSE NoLink

(***************************************************************************)
(* C27: a call of get_direct_download_link fetches at most two URLs, the   *)
(* variant page and then one next hop, and returns a URL or none; it       *)
(* returns on the first success and never fetches what it found in the     *)
(* next hop.                                                               *)
(***************************************************************************)
C27_AtMostTwoFetches ==
    pc = "resolved" =>
        /\ resolve_out.raised = ""
        /\ Len(resolve_out.fetched) \in {1, 2}
        /\ resolve_out.fetched[1] = ResolveUrl
        /\ Len(resolve_out.fetched) = 2 =>
              /\ resolve_in.fetch = "ok"
              /\ resolve_out.next_hop # NoLink
              /\ resolve_out.fetched[2] = resolve_out.next_hop
        /\ resolve_out.link # NoLink =>
              /\ Len(resolve_out.fetched) = 2
              /\ resolve_in.next_fetch = "ok"

(* the link was found in the body of the next hop and returned as it is *)
C27_Witness ==
    /\ pc = "resolved"
    /\ Len(resolve_out.fetched) = 2
    /\ resolve_out.link # NoLink
    /\ ~IsApkResponse(resolve_in.next_response)

(***************************************************************************)
(* C28: when the file of a variant's version and architecture exists at    *)
(* the moment the variant is considered, download_app_apks marks the       *)
(* architecture as found with that path and neither resolves nor downloads *)
(* for it; consequently a second run right after a run that retained every *)
(* requested architecture downloads nothing and reports the same found     *)
(* set.                                                                    *)
(***************************************************************************)
ExistingFileIsFound ==
    (/\ pc = "variant_loop"
     /\ variant_i <= Len(variants)
     /\ variants[variant_i].architecture \notin DOMAIN found_variants
     /\ OutputPath(CurrentApp, version_pages[page_i].version,
                   variants[variant_i].architecture) \in DOMAIN fs)
    => /\ found_variants' =
             Put(found_variants, variants[variant_i].architecture,
                 OutputPath(CurrentApp, version_pages[page_i].version,
                            variants[variant_i].architecture))
       /\ resolved' = resolved
       /\ pc' = "variant_loop"
       /\ fs' = fs

CoveredEarlier == earlier.ran /\ Range(architectures) \subseteq DOMAIN earlier.found

DownloadsNothing ==
    /\ pc \notin {"download", "downloaded"}
    /\ opened = {}
    /\ (pc = "exit" /\ calls # <<>>) => found_variants = earlier.found

C29_X64NeverX86 ==
    pc = "discovered" =>
        \A k \in 1..Len(candidates) :
            candidates[k].url = urljoin(DiscoverUrl, RowX64.href)
                => candidates[k].architecture # "x86"

(***************************************************************************)
(* C30: after any sequence of log_pipeline_run and log_pipeline_skip       *)
(* calls the history file holds at most 50 entries, and they are the       *)
(* entries logged last, in the order they were logged.                     *)
(***************************************************************************)
C30_HistoryIsLastFifty ==
    (pc = "logger" /\ log_calls > 0) =>
        LET history == pipeline_log.history
        IN  /\ pipeline_log.exists
            /\ Len(history) <= HistoryLimit
            /\ Len(history) = Min({Len(logged), HistoryLimit})
            /\ \A k \in 1..Len(history) :
                  history[k] = logged[Len(logged) - Len(history) + k]

(* two entries were dropped, a run and a skip are among the entries kept *)
C30_Witness ==
    /\ pc = "logger"
    /\ Len(logged) = HistoryLimit + 2
    /\ Len(pipeline_log.history) = HistoryLimit
    /\ pipeline_log.history[1].timestamp = 3
    /\ pipeline_log.history[HistoryLimit].status = "skipped"
    /\ pipeline_log.history[HistoryLimit - 1].status = "failed"

====
